---------------------------- MODULE Spec2Model ----------------------------
(***************************************************************************)
(* Model of the chat-streaming core of EvilKitten.                         *)
(*                                                                         *)
(*   Part I   DashScopeService.sendStreamMessage (src/unnamed/part_004):   *)
(*            one request/response lifecycle: timeout timer, fetch,        *)
(*            status check, the read loop with its line buffer, the SSE    *)
(*            frame decoder and the reasoning/answer router.               *)
(*            Specification: Spec (safety), FairSpec (with fairness).      *)
(*                                                                         *)
(*   Part II  useChatStore (src/unnamed/part_001): conversations,          *)
(*            messages, the session flags and sendMessage with the four    *)
(*            stream callbacks.  Specification: StoreSpec.                 *)
(*                                                                         *)
(*   Part III the request wrapper (src/src/request/http.ts): the loading   *)
(*            counter and overlay of the axios interceptors.               *)
(*            Specification: LoadingSpec.                                  *)
(*                                                                         *)
(*   Part IV  useVirtualList (src/src/utils/virtualList.ts): the window    *)
(*            of rendered items and the paddings.  Specification:          *)
(*            ListSpec.                                                    *)
(*                                                                         *)
(* Text is modelled as a sequence of tokens.  In Part I a token is a       *)
(* lexical unit of the response body ("data:", a space, a newline, one     *)
(* JSON document, ...); the network may cut the body between any two       *)
(* tokens.  In Part II a token is one character.                           *)
(***************************************************************************)
EXTENDS Integers, Sequences, FiniteSets, TLC

(***************************************************************************)
(* Bounds of the model.                                                    *)
(***************************************************************************)
\* number of newline-terminated lines of a response body
MaxLines == 3
\* number of tokens one reader.read() may return
MaxChunk == 3
\* number of ids generateId() hands out (one per conversation, two per
\* sendMessage call)
MaxIds == 6
\* number of chunk callbacks, all stream sessions together
MaxChunks == 2
\* number of calls of the store's functions made one after the other
MaxCalls == 3
\* number of messages the stored conversation holds at start-up
MaxStored == 10
\* the latest time the clock shows
MaxTime == 2
\* number of requests issued through the request wrapper
MaxRequests == 3
\* number of items of a virtual list
MaxItems == 4
\* height of an item of a virtual list, in pixels
MaxItemHeight == 2
\* height of the container of a virtual list, in pixels
MaxContainerHeight == 3
\* overscan of a virtual list, in items
MaxOverscan == 1

(***************************************************************************)
(*                                                                         *)
(*                 Part I : DashScopeService.sendStreamMessage             *)
(*                                                                         *)
(***************************************************************************)

\* ------------------------------------------------------------- tokens ---
NL   == "\\n"
SP   == " "
CR   == "\\r"
DATA == "data:"
DONE == "[DONE]"
COLON == ":"
\* text that is no JSON document, e.g.  {"choices":[{"del
BAD  == "{bad"

\* JSON documents, one token each.  JsonDoc gives what JSON.parse returns:
\*   usage    truthiness of parsed.usage
\*   choices  parsed.choices (<<>> when absent or empty); a choice carries
\*            hasDelta, and the delta's reasoning_content and content as
\*            <<>> (undefined/null) or <<string>>.
NoField == <<>>
Choice(r, c) == [hasDelta |-> TRUE, reasoning |-> r, content |-> c]
Doc(u, ch) == [usage |-> u, choices |-> ch]

JsonDoc ==
  [ jThink   |-> Doc(FALSE, << Choice(<<"think">>, NoField) >>),
    jThink2  |-> Doc(FALSE, << Choice(<<"more">>, <<"">>) >>),
    jAnswer  |-> Doc(FALSE, << Choice(NoField, <<"answer">>) >>),
    jBoth    |-> Doc(FALSE, << Choice(<<"hm">>, <<"ok">>) >>),
    jUsageC  |-> Doc(TRUE,  << Choice(NoField, <<"count">>) >>),
    jEmpty   |-> Doc(FALSE, <<>>),
    jNoDelta |-> Doc(FALSE, << [hasDelta |-> FALSE, reasoning |-> NoField,
                                content |-> NoField] >>) ]

JsonTokens == DOMAIN JsonDoc

\* ---------------------------------------------------------- callbacks ---
\* The log of callback invocations of one sendStreamMessage call.
\* arg is the chunk for the chunk callbacks, the error's message (a
\* sequence of parts) for onError, and <<>> for onComplete.
Call(cb, arg) == [cb |-> cb, arg |-> arg]

\* Error messages.  TimeoutMsg stands for the message of
\* new Error('请求超时') -- written in ASCII here.
TimeoutMsg  == <<"request timed out">>
AbortMsg    == <<"The user aborted a request.">>
NetworkMsg  == <<"Failed to fetch">>
ReadMsg     == <<"network error">>
NoBodyMsg   == <<"response body is empty">>
HttpMsg(status, errorText) == <<"HTTP ", ToString(status), ": ", errorText>>

\* An error value: instanceof Error, its name and its message.
Err(isError, name, message) ==
  [isError |-> isError, name |-> name, message |-> message]


\* thrown values used by the model
TimeoutError == Err(TRUE, "Error", TimeoutMsg)
AbortError   == Err(TRUE, "AbortError", AbortMsg)
NetworkError == Err(TRUE, "TypeError", NetworkMsg)
ReadError    == Err(TRUE, "TypeError", ReadMsg)
NoBodyError  == Err(TRUE, "Error", NoBodyMsg)
HttpError(status, errorText) == Err(TRUE, "Error", HttpMsg(status, errorText))
\* a thrown value that is no instance of Error (a string, say)
OtherValue   == Err(FALSE, "", <<"offline">>)

\* What a failing fetch rejects with when no abort is the cause: the
\* platform's fetch with a TypeError; a fetch that was replaced (polyfill,
\* interceptor, test double) with whatever it throws.
FetchFailures == { NetworkError, OtherValue }
\* What a failing read of the body rejects with when no abort is the
\* cause: the body stream of a fetch response errors with a TypeError.
ReadFailures  == { ReadError }

\* ------------------------------------------------------------ decoder ---
\* String.prototype.trim on a token sequence: spaces and carriage returns
\* are the white space a line can hold.
IsSpace(t) == t \in {SP, CR}

RECURSIVE TrimStart(_)
TrimStart(s) ==
  IF s # <<>> /\ IsSpace(Head(s)) THEN TrimStart(Tail(s)) ELSE s

RECURSIVE TrimEnd(_)
TrimEnd(s) ==
  IF s # <<>> /\ IsSpace(s[Len(s)]) THEN TrimEnd(SubSeq(s, 1, Len(s) - 1))
  ELSE s

Trim(s) == TrimEnd(TrimStart(s))

\* buffer.split('\n'): the pieces between newlines, at least one piece.
RECURSIVE Split(_)
Split(s) ==
  IF \E i \in 1..Len(s) : s[i] = NL
  THEN LET i == CHOOSE k \in 1..Len(s) :
                  s[k] = NL /\ \A j \in 1..(k - 1) : s[j] # NL
       IN  <<SubSeq(s, 1, i - 1)>> \o Split(SubSeq(s, i + 1, Len(s)))
  ELSE <<s>>

\* lines.pop() || ''   and what is left in lines after the pop
Last(lines) == lines[Len(lines)]
ButLast(lines) == SubSeq(lines, 1, Len(lines) - 1)

\* The decoding state threaded through one call: the answering latch, the
\* callbacks invoked so far, and the exception (<<>> or <<error>>) that
\* has escaped the for loop over the lines.
NotThrown == <<>>
DecState(answering, log) ==
  [isAnswering |-> answering, calls |-> log, thrown |-> NotThrown]

Invoke(st, cb, arg) == [st EXCEPT !.calls = Append(@, Call(cb, arg))]

\* a faulty variant: reasoning is routed whether or not the answer has begun
RouteDeltaNoLatch(delta, st) ==
  LET st1 == IF delta.reasoning # NoField
             THEN Invoke(st, "onReasoningChunk", delta.reasoning[1])
             ELSE st
  IN  IF delta.content # NoField /\ delta.content[1] # ""
      THEN Invoke([st1 EXCEPT !.isAnswering = TRUE], "onChunk", delta.content[1])
      ELSE st1

\* a faulty variant: the answer text of a delta is routed before its reasoning
RouteDeltaContentFirst(delta, st) ==
  LET st1 == IF delta.content # NoField /\ delta.content[1] # ""
             THEN Invoke([st EXCEPT !.isAnswering = TRUE], "onChunk",
                         delta.content[1])
             ELSE st
  IN  IF delta.reasoning # NoField /\ ~st.isAnswering
      THEN Invoke(st1, "onReasoningChunk", delta.reasoning[1])
      ELSE st1

\* Lines 191-211: route one delta.
RouteDelta(delta, st) ==
  LET st1 == IF delta.reasoning # NoField /\ ~st.isAnswering
             THEN Invoke(st, "onReasoningChunk", delta.reasoning[1])
             ELSE st
  IN  IF delta.content # NoField /\ delta.content[1] # ""
      THEN Invoke([st1 EXCEPT !.isAnswering = TRUE], "onChunk", delta.content[1])
      ELSE st1

\* Lines 177-214, the try block around JSON.parse.  A payload that is no single
\* JSON document makes JSON.parse throw a SyntaxError; a choice without
\* delta makes the property access on it throw a TypeError.  The
\* catch of the same try logs either and the loop goes on.
SyntaxError == Err(TRUE, "SyntaxError", <<"Unexpected token">>)

\* a faulty variant: no inner try/catch, a parse failure escapes the loop
HandleDataNoCatch(data, st) ==
  IF Len(data) # 1 \/ data[1] \notin JsonTokens
  THEN [st EXCEPT !.thrown = <<SyntaxError>>]
  ELSE LET parsed == JsonDoc[data[1]]
       IN  IF parsed.usage \/ Len(parsed.choices) = 0 THEN st
           ELSE IF ~parsed.choices[1].hasDelta THEN st
           ELSE RouteDelta(parsed.choices[1], st)

\* a faulty variant: a frame with a usage object is routed like any other
HandleDataUsageRouted(data, st) ==
  IF Len(data) # 1 \/ data[1] \notin JsonTokens THEN st
  ELSE LET parsed == JsonDoc[data[1]]
       IN  IF Len(parsed.choices) = 0 THEN st
           ELSE IF ~parsed.choices[1].hasDelta THEN st
           ELSE RouteDelta(parsed.choices[1], st)

\* Lines 177-214: parse one payload and route its delta.
HandleData(data, st) ==
  IF Len(data) # 1 \/ data[1] \notin JsonTokens THEN st
  ELSE LET parsed == JsonDoc[data[1]]
       IN  IF parsed.usage THEN st
           ELSE IF Len(parsed.choices) = 0 THEN st
           ELSE IF ~parsed.choices[1].hasDelta THEN st
           ELSE RouteDelta(parsed.choices[1], st)

\* Lines 161-215: one line of the buffer.
StartsWithData(s) == Len(s) >= 2 /\ s[1] = DATA /\ s[2] = SP

ProcessLine(line, st) ==
  LET trimmedLine == Trim(line)
  IN  IF trimmedLine = <<>> \/ Head(trimmedLine) = COLON THEN st
      ELSE IF StartsWithData(trimmedLine)
      THEN LET data == Trim(SubSeq(trimmedLine, 3, Len(trimmedLine)))
           IN  IF data = <<DONE>> THEN st ELSE HandleData(data, st)
      ELSE st

RECURSIVE ProcessLines(_, _)
ProcessLines(lines, st) ==
  IF lines = <<>> \/ st.thrown # NotThrown THEN st
  ELSE ProcessLines(Tail(lines), ProcessLine(Head(lines), st))

\* ----------------------------------------------------- response bodies ---
\* The lines a response body is made of (without their newline) ...
FrameLines ==
  { <<>>,
    <<COLON, BAD>>,
    <<DATA, SP, DONE>>,
    <<DATA, SP, "jThink">>,
    <<SP, DATA, SP, SP, "jThink2", CR>>,
    <<DATA, SP, "jAnswer">>,
    <<DATA, SP, "jBoth">>,
    <<DATA, SP, "jUsageC">>,
    <<DATA, SP, "jEmpty">>,
    <<DATA, SP, BAD>> }

\* ... and what may follow the last newline when the server closes.
Tails == { <<>>, <<DATA, SP, "jAnswer">> }

RECURSIVE BodiesOfLines(_)
BodiesOfLines(n) ==
  IF n = 0 THEN { <<>> }
  ELSE { b \o l \o <<NL>> : b \in BodiesOfLines(n - 1), l \in FrameLines }

Bodies ==
  { b \o t : b \in UNION { BodiesOfLines(n) : n \in 0..MaxLines }, t \in Tails }

Statuses == {200, 500}
ErrorTexts == {"", "Internal Server Error"}
Ok(status) == status >= 200 /\ status <= 299

\* -------------------------------------------------- state of the store ---
\* (declared here because every step of a call leaves it unchanged)
VARIABLES
  conversations,         \* conversations.value, most recent first
  activeConversationId,  \* activeConversationId.value, Null for null
  isLoading,             \* isLoading.value
  isStreaming,           \* isStreaming.value
  localStorage,          \* what saveConversations wrote last
  nextId,                \* the id generateId() gives the next conversation
  nextMsgId,             \* the id generateId() gives the next message (the
                         \* ids of conversations and of messages are fresh
                         \* and never compared with each other)
  sessions,              \* the sendMessage calls made so far
  now,                   \* what Date.now() returns
  op,                    \* the call of a store function made last
  pre                    \* the state of the store before that call

uvars == <<op, pre>>
cvars == <<conversations, activeConversationId, isLoading, isStreaming,
           localStorage, nextId, nextMsgId, sessions, now, uvars>>

\* -------------------------------------------------------------- state ---
VARIABLES
  pc,          \* where the call is suspended: "fetch" (await fetch), "text"
               \* (await response.text()), "read" (await reader.read()),
               \* "returned" (the promise of the call has settled)
  timer,       \* timeoutId: "armed", "cleared" or "fired"
  aborted,     \* abortController.signal.aborted
  response,    \* the response fetch resolved with: status and body present
  body,        \* the tokens the server sends as the response body
  pos,         \* how many of them reader.read() has returned
  buffer,      \* let buffer
  isAnswering, \* let isAnswering
  calls        \* callbacks invoked so far, in order

svars == <<pc, timer, aborted, response, body, pos, buffer, isAnswering, calls>>

\* ------------------------------------- state of the request wrapper ---
VARIABLES
  loadingCount,     \* let loadingCount
  loadingInstance,  \* let loadingInstance: TRUE while it holds an overlay
  requests          \* the requests issued so far: config.showLoading and
                    \* how far each has come

hvars == <<loadingCount, loadingInstance, requests>>

\* ---------------------------------------- state of a virtual list ---
VARIABLES
  items,            \* items.value
  itemHeight,       \* options.itemHeight
  containerHeight,  \* options.containerHeight
  overscan,         \* options.overscan
  scrollTop         \* scrollTop.value

lvars == <<items, itemHeight, containerHeight, overscan, scrollTop>>

\* what no step of a sendStreamMessage call or of the store touches
wvars == <<hvars, lvars>>

NoResponse == [status |-> 0, hasBody |-> FALSE]

\* Lines 89-95: the call has created the controller, armed the timer and
\* issued the fetch.
StreamInit ==
  /\ pc = "fetch"
  /\ timer = "armed"
  /\ aborted = FALSE
  /\ response = NoResponse
  /\ body = <<>>
  /\ pos = 0
  /\ buffer = <<>>
  /\ isAnswering = FALSE
  /\ calls = <<>>

\* clearTimeout(timeoutId): a timer that has fired stays fired.
ClearTimeout == IF timer = "armed" THEN "cleared" ELSE timer

\* Lines 92-95, the timer callback.
TimerFire ==
  /\ UNCHANGED <<cvars, wvars>>
  /\ timer = "armed"
  /\ timer' = "fired"
  /\ aborted' = TRUE
  /\ UNCHANGED <<pc, response, body, pos, buffer, isAnswering, calls>>

\* a faulty variant: an AbortError is passed on as it is
CatchNoAbortBranch(log, error) ==
  /\ timer' = ClearTimeout
  /\ calls' = IF error.isError
              THEN Append(log, Call("onError", error.message))
              ELSE log
  /\ pc' = "returned"

\* a faulty variant: the catch block also completes the call
CatchAlsoCompletes(log, error) ==
  /\ timer' = ClearTimeout
  /\ calls' = log \o <<Call("onError", error.message), Call("onComplete", <<>>)>>
  /\ pc' = "returned"

\* Lines 218-232, the catch block, entered with the thrown value; log is
\* what has been invoked before the throw.
Catch(log, error) ==
  /\ timer' = ClearTimeout
  /\ calls' = IF error.isError
              THEN IF error.name = "AbortError"
                   THEN Append(log, Call("onError", TimeoutMsg))
                   ELSE Append(log, Call("onError", error.message))
              ELSE log
  /\ pc' = "returned"

\* Line 105: fetch rejects because the signal was aborted.
FetchAbort ==
  /\ UNCHANGED <<cvars, wvars>>
  /\ pc = "fetch" /\ aborted
  /\ Catch(calls, AbortError)
  /\ UNCHANGED <<aborted, response, body, pos, buffer, isAnswering>>

\* Line 105: fetch rejects, no response (network failure).
FetchReject ==
  /\ UNCHANGED <<cvars, wvars>>
  /\ pc = "fetch" /\ ~aborted
  /\ \E error \in FetchFailures : Catch(calls, error)
  /\ UNCHANGED <<aborted, response, body, pos, buffer, isAnswering>>

\* Lines 105-140: fetch resolves; clearTimeout, the status and body checks,
\* and the set-up of the read loop, up to the first await reader.read().
FetchResolve ==
  /\ UNCHANGED <<cvars, wvars>>
  /\ pc = "fetch" /\ ~aborted
  /\ \E status \in Statuses, hasBody \in BOOLEAN :
       /\ response' = [status |-> status, hasBody |-> hasBody]
       /\ IF ~Ok(status)
          THEN /\ timer' = ClearTimeout
               /\ pc' = "text"
               /\ UNCHANGED <<body, pos, buffer, isAnswering, calls>>
          ELSE IF ~hasBody
          THEN /\ Catch(calls, NoBodyError)
               /\ UNCHANGED <<body, pos, buffer, isAnswering>>
          ELSE /\ timer' = ClearTimeout
               /\ pc' = "read"
               /\ body' \in Bodies
               /\ pos' = 0
               /\ buffer' = <<>>
               /\ isAnswering' = FALSE
               /\ UNCHANGED calls
  /\ UNCHANGED aborted

\* Lines 128-129: response.text() resolves and the HTTP error is thrown.
ErrorTextResolve ==
  /\ UNCHANGED <<cvars, wvars>>
  /\ pc = "text"
  /\ \E errorText \in ErrorTexts :
       /\ ~response.hasBody => errorText = ""
       /\ Catch(calls, HttpError(response.status, errorText))
  /\ UNCHANGED <<aborted, response, body, pos, buffer, isAnswering>>

\* Line 128: response.text() rejects (the body of the error response
\* cannot be read to its end).
ErrorTextReject ==
  /\ UNCHANGED <<cvars, wvars>>
  /\ pc = "text" /\ response.hasBody
  /\ \E error \in ReadFailures :
       Catch(calls, IF aborted THEN AbortError ELSE error)
  /\ UNCHANGED <<aborted, response, body, pos, buffer, isAnswering>>

\* a faulty variant: the incomplete last line is not carried over
FeedNoCarry(buf, value) ==
  LET lines == Split(value)
  IN  [lines |-> ButLast(lines), buffer |-> Last(lines)]

\* Lines 152-157: what one chunk does to the buffer.
Feed(buf, value) ==
  LET lines == Split(buf \o value)
  IN  [lines |-> ButLast(lines), buffer |-> Last(lines)]

\* Lines 144-216: reader.read() resolves with a chunk; the chunk is
\* decoded, split and every complete line processed, up to the next await.
ReadChunk ==
  /\ UNCHANGED <<cvars, wvars>>
  /\ pc = "read"
  /\ \E n \in 1..MaxChunk :
       /\ pos + n <= Len(body)
       /\ LET fed == Feed(buffer, SubSeq(body, pos + 1, pos + n))
              st  == ProcessLines(fed.lines, DecState(isAnswering, calls))
          IN  /\ pos' = pos + n
              /\ buffer' = fed.buffer
              /\ isAnswering' = st.isAnswering
              /\ IF st.thrown # NotThrown
                 THEN Catch(st.calls, st.thrown[1])
                 ELSE /\ calls' = st.calls
                      /\ UNCHANGED <<pc, timer>>
  /\ UNCHANGED <<aborted, response, body>>

\* a faulty variant: no break after onComplete, the loop reads on
ReadDoneNoBreak ==
  /\ UNCHANGED <<cvars, wvars>>
  /\ pc = "read" /\ pos = Len(body) /\ Len(calls) < Len(body) + 3
  /\ calls' = Append(calls, Call("onComplete", <<>>))
  /\ UNCHANGED <<pc, timer, aborted, response, body, pos, buffer, isAnswering>>

\* Lines 144-150: reader.read() resolves with done; onComplete and break.
ReadDone ==
  /\ UNCHANGED <<cvars, wvars>>
  /\ pc = "read" /\ pos = Len(body)
  /\ calls' = Append(calls, Call("onComplete", <<>>))
  /\ pc' = "returned"
  /\ UNCHANGED <<timer, aborted, response, body, pos, buffer, isAnswering>>

\* Line 144: reader.read() rejects (the connection breaks mid-stream).
ReadReject ==
  /\ UNCHANGED <<cvars, wvars>>
  /\ pc = "read"
  /\ \E error \in ReadFailures :
       Catch(calls, IF aborted THEN AbortError ELSE error)
  /\ UNCHANGED <<aborted, response, body, pos, buffer, isAnswering>>

StreamNext ==
  \/ TimerFire
  \/ FetchAbort
  \/ FetchReject
  \/ FetchResolve
  \/ ErrorTextResolve
  \/ ErrorTextReject
  \/ ReadChunk
  \/ ReadDone
  \/ ReadReject

(***************************************************************************)
(*                                                                         *)
(*                     Part II : useChatStore                              *)
(*                                                                         *)
(***************************************************************************)
\* Text is a sequence of characters here.  A conversation is
\* [id, title, messages, createdAt, updatedAt]; a message is [id, role,
\* content, isStreaming, reasoningContent, timestamp], an optional field
\* being <<>> (undefined) or <<value>>.

Null == 0
Undefined == <<>>
Some(x) == <<x>>

\* line 81, the title of a new conversation
NewTitle == <<"NewChat">>

\* The state the store's functions work on.
Mem ==
  [conversations |-> conversations,
   activeConversationId |-> activeConversationId,
   isLoading |-> isLoading,
   isStreaming |-> isStreaming,
   localStorage |-> localStorage,
   nextId |-> nextId,
   nextMsgId |-> nextMsgId,
   sessions |-> sessions,
   now |-> now,
   thrown |-> FALSE]

\* index of the conversation with this id in the list, 0 if there is none
IndexOf(convs, id) ==
  IF \E i \in 1..Len(convs) : convs[i].id = id
  THEN CHOOSE i \in 1..Len(convs) : convs[i].id = id
  ELSE 0

\* index of the message with this id in a message list, 0 if none
MsgIndex(messages, id) ==
  IF \E i \in 1..Len(messages) : messages[i].id = id
  THEN CHOOSE i \in 1..Len(messages) : messages[i].id = id
  ELSE 0

\* ------------------------------------------------------------ storage ---
\* localStorage holds two items, 'conversations' and 'activeConversationId'.
\* An item is absent (getItem gives null) or holds a text; full tells that
\* setItem throws (the quota is exceeded).  thrown, in the state a function
\* of the store yields, tells that the function ended by an exception.
NoItem == [present |-> FALSE, text |-> <<>>]
Item(text) == [present |-> TRUE, text |-> text]

\* JSON.stringify(value): a text of one token.  The conversations hold
\* strings, numbers, booleans, arrays and plain objects only, and a field
\* that is undefined is left out (it is <<>> before and after).
stringify(value) == << [ok |-> TRUE, value |-> value] >>
\* a text JSON.parse throws on
Unparsable == << [ok |-> FALSE, value |-> <<>>] >>
\* JSON.parse(text)
parse(text) ==
  IF Len(text) = 1 /\ text[1].ok
  THEN [thrown |-> FALSE, value |-> text[1].value]
  ELSE [thrown |-> TRUE, value |-> <<>>]

\* lines 340-343; the first setItem throws when the storage is full
saveConversations(m) ==
  IF m.localStorage.full
  THEN [m EXCEPT !.thrown = TRUE]
  ELSE [m EXCEPT !.localStorage.conversations =
                    Item(stringify(m.conversations)),
                 !.localStorage.activeConversationId =
                    Item(IF m.activeConversationId = Null THEN <<>>
                         ELSE <<m.activeConversationId>>)]

\* lines 78-97; the new conversation has id m.nextId
createConversation(m) ==
  LET newConversation == [id |-> m.nextId, title |-> NewTitle,
                          messages |-> <<>>,
                          createdAt |-> m.now, updatedAt |-> m.now]
  IN  saveConversations(
        [m EXCEPT !.conversations = <<newConversation>> \o @,
                  !.activeConversationId = newConversation.id,
                  !.nextId = @ + 1])

\* Array.prototype.splice(index, 1)
Splice(seq, index) ==
  SubSeq(seq, 1, index - 1) \o SubSeq(seq, index + 1, Len(seq))

\* a faulty variant: the active id is left alone when its conversation goes
deleteConversationKeepsActive(m, id) ==
  LET index == IndexOf(m.conversations, id)
  IN  IF index = 0 THEN m
      ELSE saveConversations([m EXCEPT !.conversations = Splice(@, index)])

\* a faulty variant: the first remaining conversation always becomes active
deleteConversationResets(m, id) ==
  LET index == IndexOf(m.conversations, id)
  IN  IF index = 0 THEN m
      ELSE LET m1 == [m EXCEPT !.conversations = Splice(@, index)]
           IN  saveConversations(
                 IF Len(m1.conversations) > 0
                 THEN [m1 EXCEPT !.activeConversationId = m1.conversations[1].id]
                 ELSE createConversation(m1))

\* a faulty variant: no conversation is created when the last one goes
deleteConversationLeavesEmpty(m, id) ==
  LET index == IndexOf(m.conversations, id)
  IN  IF index = 0 THEN m
      ELSE LET m1 == [m EXCEPT !.conversations = Splice(@, index)]
               m2 == IF m1.activeConversationId = id
                     THEN IF Len(m1.conversations) > 0
                          THEN [m1 EXCEPT !.activeConversationId =
                                            m1.conversations[1].id]
                          ELSE [m1 EXCEPT !.activeConversationId = Null]
                     ELSE m1
           IN  saveConversations(m2)

\* lines 104-122
deleteConversation(m, id) ==
  LET index == IndexOf(m.conversations, id)
  IN  IF index = 0 THEN m
      ELSE LET m1 == [m EXCEPT !.conversations = Splice(@, index)]
               m2 == IF m1.activeConversationId = id
                     THEN IF Len(m1.conversations) > 0
                          THEN [m1 EXCEPT !.activeConversationId =
                                            m1.conversations[1].id]
                          ELSE createConversation(m1)
                     ELSE m1
           IN  saveConversations(m2)

\* lines 129-131
switchConversation(m, id) == [m EXCEPT !.activeConversationId = id]

\* line 159: the title derived from the first user message
TitleLen == 20
\* a faulty variant: the ellipsis is added from 20 characters on
TitleOfOffByOne(content) ==
  IF Len(content) >= TitleLen
  THEN SubSeq(content, 1, TitleLen) \o <<"...">>
  ELSE content

TitleOf(content) ==
  IF Len(content) > TitleLen
  THEN SubSeq(content, 1, TitleLen) \o <<"...">>
  ELSE content

\* a faulty variant: an unknown conversation is created on the fly
addMessageCreates(m, conversationId, role, content, streaming) ==
  LET m0 == IF IndexOf(m.conversations, conversationId) = 0
            THEN createConversation(m) ELSE m
      i  == IF IndexOf(m.conversations, conversationId) = 0
            THEN 1 ELSE IndexOf(m.conversations, conversationId)
      newMessage == [id |-> m0.nextMsgId, role |-> role, content |-> content,
                     isStreaming |-> streaming,
                     reasoningContent |-> Undefined, timestamp |-> m0.now]
      c  == m0.conversations[i]
      ms == Append(c.messages, newMessage)
      c1 == [c EXCEPT !.messages = ms, !.updatedAt = m0.now,
                      !.title = IF Len(ms) = 1 /\ role = "user"
                                THEN TitleOf(content) ELSE @]
  IN  saveConversations(
        [m0 EXCEPT !.conversations[i] = c1, !.nextMsgId = @ + 1])

\* lines 142-164; the new message has id m.nextMsgId, and nothing changes (the
\* function returns undefined) when the conversation is unknown
addMessage(m, conversationId, role, content, streaming) ==
  LET i == IndexOf(m.conversations, conversationId)
  IN  IF i = 0 THEN m
      ELSE LET newMessage == [id |-> m.nextMsgId, role |-> role,
                              content |-> content,
                              isStreaming |-> streaming,
                              reasoningContent |-> Undefined,
                              timestamp |-> m.now]
               c  == m.conversations[i]
               ms == Append(c.messages, newMessage)
               c1 == [c EXCEPT !.messages = ms, !.updatedAt = m.now,
                               !.title = IF Len(ms) = 1 /\ role = "user"
                                         THEN TitleOf(content) ELSE @]
           IN  saveConversations(
                 [m EXCEPT !.conversations[i] = c1, !.nextMsgId = @ + 1])

\* a faulty variant: the text passed in is appended, not stored
updateMessageAppends(m, conversationId, messageId, content) ==
  LET i == IndexOf(m.conversations, conversationId)
  IN  IF i = 0 THEN m
      ELSE LET k == MsgIndex(m.conversations[i].messages, messageId)
           IN  IF k = 0 THEN m
               ELSE saveConversations(
                      [m EXCEPT !.conversations[i].messages[k].content =
                                  @ \o content,
                                !.conversations[i].updatedAt = m.now])

\* a faulty variant: the message is stamped anew with every update
updateMessageRestamps(m, conversationId, messageId, content) ==
  LET i == IndexOf(m.conversations, conversationId)
  IN  IF i = 0 THEN m
      ELSE LET k == MsgIndex(m.conversations[i].messages, messageId)
           IN  IF k = 0 THEN m
               ELSE saveConversations(
                      [m EXCEPT !.conversations[i].messages[k].content = content,
                                !.conversations[i].messages[k].timestamp = m.now,
                                !.conversations[i].updatedAt = m.now])

\* lines 175-185
updateMessage(m, conversationId, messageId, content) ==
  LET i == IndexOf(m.conversations, conversationId)
  IN  IF i = 0 THEN m
      ELSE LET k == MsgIndex(m.conversations[i].messages, messageId)
           IN  IF k = 0 THEN m
               ELSE saveConversations(
                      [m EXCEPT !.conversations[i].messages[k].content = content,
                                !.conversations[i].updatedAt = m.now])

\* lines 196-206
updateReasoningContent(m, conversationId, messageId, reasoningContent) ==
  LET i == IndexOf(m.conversations, conversationId)
  IN  IF i = 0 THEN m
      ELSE LET k == MsgIndex(m.conversations[i].messages, messageId)
           IN  IF k = 0 THEN m
               ELSE saveConversations(
                      [m EXCEPT !.conversations[i].messages[k].reasoningContent =
                                  Some(reasoningContent),
                                !.conversations[i].updatedAt = m.now])

\* -------------------------------------------------------- store inputs ---
\* what the user types
Inputs == { <<" ", " ">>, <<" ", "h", "i">> }
\* the chunks a stream session delivers: its first chunk is "a", its
\* second "b", ... (the store never looks into a chunk)
Letters == <<"a", "b", "c", "d", "e", "f">>
ChunkNo(k) == <<Letters[k]>>
\* the message of the error a stream session reports: the timeout (which
\* ends a call only before the response has arrived) when it has delivered
\* no chunk, a failed read otherwise (the store never looks into it)
ErrorAfter(n) == IF n = 0 THEN TimeoutMsg ELSE ReadMsg

\* line 319, the diagnostic text that replaces the content on error
ErrorText(message) == <<"Sorry, an error occurred: ">> \o message \o <<"Please check ...">>

\* line 258: conversation.messages.slice(-10)
HistoryLen == 10
RecentMessagesFirst(messages) ==
  SubSeq(messages, 1, IF Len(messages) < HistoryLen THEN Len(messages)
                      ELSE HistoryLen)

RecentMessages(messages) ==
  SubSeq(messages,
         IF Len(messages) > HistoryLen THEN Len(messages) - HistoryLen + 1
         ELSE 1,
         Len(messages))

\* the ids of a list of messages
Ids(messages) == [k \in 1..Len(messages) |-> messages[k].id]

\* A sendMessage call that went past its input check: the conversation it
\* captured (by id: once that conversation is deleted the captured object
\* can no longer be reached from the store, and what the callbacks write
\* into it is not part of the state), the ids of the user message and of
\* the assistant message it created, where it is ("import": awaiting the
\* dynamic import, "stream": sendStreamMessage is running, "closed":
\* settled) and how it ended.  history is what it passed to
\* sendStreamMessage (the ids of the messages; a local of the call, gone
\* when the call returns), rlog and clog are the chunks its callbacks
\* received, concatenated, error the message of the error onError
\* received, frames the deltas of the frames the call has decoded.
Session(cid, uid, mid) ==
  [conv |-> cid, user |-> uid, msg |-> mid, pc |-> "import",
   outcome |-> "none", history |-> <<>>, rlog |-> <<>>, clog |-> <<>>,
   error |-> <<>>, n |-> 0, ended |-> 0, frames |-> <<>>]

RECURSIVE SumN(_)
SumN(ss) == IF ss = <<>> THEN 0 ELSE Head(ss).n + SumN(Tail(ss))

\* the chunk callbacks invoked so far
ChunksDelivered == SumN(sessions)

\* whether generateId() can still hand out k ids
IdsLeft(k) == (nextId - 1) + (nextMsgId - 1) + k <= MaxIds

\* lines 27-45: the store as defineStore builds it
NewStore ==
  [conversations |-> <<>>, activeConversationId |-> Null,
   isLoading |-> FALSE, isStreaming |-> FALSE,
   localStorage |-> [conversations |-> NoItem,
                     activeConversationId |-> NoItem, full |-> FALSE],
   nextId |-> 1, nextMsgId |-> 1, sessions |-> <<>>, now |-> 0,
   thrown |-> FALSE]

\* a faulty variant: the saved id is taken without looking it up
loadConversationsTrusting(m) ==
  LET saved == m.localStorage.conversations
      m1 == IF saved.present /\ saved.text # <<>> /\ ~parse(saved.text).thrown
            THEN [m EXCEPT !.conversations = parse(saved.text).value]
            ELSE m
      savedActiveId == m.localStorage.activeConversationId
  IN  IF savedActiveId.present /\ savedActiveId.text # <<>>
      THEN [m1 EXCEPT !.activeConversationId = savedActiveId.text[1]]
      ELSE IF Len(m1.conversations) > 0
      THEN [m1 EXCEPT !.activeConversationId = m1.conversations[1].id]
      ELSE createConversation(m1)

\* lines 350-372; getItem gives null for an item that was never stored, and
\* null and the empty text are falsy; a text that does not parse leaves the
\* conversations as they are (lines 354-358)
loadConversations(m) ==
  LET saved == m.localStorage.conversations
      m1 == IF saved.present /\ saved.text # <<>> /\ ~parse(saved.text).thrown
            THEN [m EXCEPT !.conversations = parse(saved.text).value]
            ELSE m
      savedActiveId == m.localStorage.activeConversationId
  IN  IF /\ savedActiveId.present /\ savedActiveId.text # <<>>
         /\ IndexOf(m1.conversations, savedActiveId.text[1]) # 0
      THEN [m1 EXCEPT !.activeConversationId = savedActiveId.text[1]]
      ELSE IF Len(m1.conversations) > 0
      THEN [m1 EXCEPT !.activeConversationId = m1.conversations[1].id]
      ELSE createConversation(m1)

\* the state m as the state of the store
IsMem(m) ==
  /\ conversations = m.conversations
  /\ activeConversationId = m.activeConversationId
  /\ isLoading = m.isLoading
  /\ isStreaming = m.isStreaming
  /\ localStorage = m.localStorage
  /\ nextId = m.nextId
  /\ nextMsgId = m.nextMsgId
  /\ sessions = m.sessions
  /\ now = m.now

\* the store takes the state m
SetMem(m) ==
  \E v \in {m} :
    /\ conversations' = v.conversations
    /\ activeConversationId' = v.activeConversationId
    /\ isLoading' = v.isLoading
    /\ isStreaming' = v.isStreaming
    /\ localStorage' = v.localStorage
    /\ nextId' = v.nextId
    /\ nextMsgId' = v.nextMsgId
    /\ sessions' = v.sessions
    /\ now' = v.now

\* no call of the store's functions is being looked at
NoCall ==
  [name |-> "none", seq |-> 0, id |-> Null, msg |-> Null, role |-> "",
   content |-> <<>>, returned |-> FALSE, rejected |-> FALSE]

\* State after loadConversations on an empty storage (lines 350-372): one
\* new conversation, active and saved.
StoreInit ==
  /\ IsMem(loadConversations(NewStore))
  /\ op = NoCall
  /\ pre = NewStore

\* a faulty variant: blank input is sent like any other
sendMessageBlank(m, content) ==
  LET idx == IndexOf(m.conversations, m.activeConversationId)
      m1  == IF idx = 0 THEN createConversation(m) ELSE m
      cid == m1.activeConversationId
      m2  == addMessage(m1, cid, "user", Trim(content), FALSE)
      m3  == addMessage(m2, cid, "assistant", <<>>, TRUE)
  IN  [m3 EXCEPT !.isLoading = TRUE, !.isStreaming = TRUE,
                 !.sessions = Append(@, Session(cid, m1.nextMsgId, m2.nextMsgId))]

\* a faulty variant: the input is stored untrimmed
sendMessageUntrimmed(m, content) ==
  IF Trim(content) = <<>> THEN m
  ELSE LET idx == IndexOf(m.conversations, m.activeConversationId)
           m1  == IF idx = 0 THEN createConversation(m) ELSE m
           cid == m1.activeConversationId
           m2  == addMessage(m1, cid, "user", content, FALSE)
           m3  == addMessage(m2, cid, "assistant", <<>>, TRUE)
       IN  [m3 EXCEPT !.isLoading = TRUE, !.isStreaming = TRUE,
                      !.sessions = Append(@, Session(cid, m1.nextMsgId, m2.nextMsgId))]

\* lines 223-254: sendMessage up to its first suspension, the await of the
\* dynamic import.  A user message has no isStreaming field (FALSE here).
\* An exception of createConversation or of the first addMessage (lines
\* 228-236) leaves the function; one of the second addMessage (line 243)
\* is thrown inside the try and caught at lines 325-329.
sendMessage(m, content) ==
  IF Trim(content) = <<>> THEN m
  ELSE LET idx == IndexOf(m.conversations, m.activeConversationId)
           m1  == IF idx = 0 THEN createConversation(m) ELSE m
           cid == m1.activeConversationId
           m2  == addMessage(m1, cid, "user", Trim(content), FALSE)
           m3  == addMessage(m2, cid, "assistant", <<>>, TRUE)
       IN  IF m1.thrown THEN m1
           ELSE IF m2.thrown THEN m2
           ELSE IF m3.thrown
           THEN [m3 EXCEPT !.isLoading = FALSE, !.isStreaming = FALSE,
                           !.thrown = FALSE]
           ELSE [m3 EXCEPT !.isLoading = TRUE, !.isStreaming = TRUE,
                           !.sessions = Append(@, Session(cid, m1.nextMsgId, m2.nextMsgId))]

\* the assistant message of a session, as the callbacks find it in the
\* captured conversation: <<>> when the conversation has left the list
MessageIn(convs, sess) ==
  LET i == IndexOf(convs, sess.conv)
  IN  IF i = 0 THEN <<>>
      ELSE LET k == MsgIndex(convs[i].messages, sess.msg)
           IN  IF k = 0 THEN <<>> ELSE <<convs[i].messages[k]>>

MessageOf(sess) == MessageIn(conversations, sess)

\* the session's assistant message replaced in place in the captured
\* conversation, nothing saved
Patch(convs, sess, msg) ==
  LET i == IndexOf(convs, sess.conv)
  IN  IF i = 0 THEN convs
      ELSE LET k == MsgIndex(convs[i].messages, sess.msg)
           IN  IF k = 0 THEN convs
               ELSE [convs EXCEPT ![i].messages[k] = msg]

\* a faulty variant: the history is sliced without the placeholder
importResolvedNoPlaceholder(m, s) ==
  LET i == IndexOf(m.conversations, m.sessions[s].conv)
  IN  [m EXCEPT !.sessions[s].pc = "stream",
                !.sessions[s].history =
                   IF i = 0 THEN <<>>
                   ELSE Ids(RecentMessages(
                              ButLast(m.conversations[i].messages)))]

\* lines 254-262: the import resolves, the history is sliced and
\* sendStreamMessage starts.  (The messages of a conversation that has
\* left the list are not part of the state: the history reads as empty.)
importResolved(m, s) ==
  LET i == IndexOf(m.conversations, m.sessions[s].conv)
  IN  [m EXCEPT !.sessions[s].pc = "stream",
                !.sessions[s].history =
                   IF i = 0 THEN <<>>
                   ELSE Ids(RecentMessages(m.conversations[i].messages))]

\* a faulty variant: the catch resets isStreaming only
importRejectedKeepsLoading(m) ==
  [m EXCEPT !.isStreaming = FALSE,
            !.sessions =
               [t \in 1..Len(@) |->
                  IF @[t].pc = "import"
                  THEN [@[t] EXCEPT !.pc = "closed", !.history = <<>>,
                                    !.outcome = "importFailed"]
                  ELSE @[t]]]

\* lines 254 and 325-329: the import rejects and the catch runs.  Calls
\* that wait for the same module at the same time wait for one load, and
\* their catch blocks run one after the other with no other step between.
importRejected(m) ==
  [m EXCEPT !.isLoading = FALSE, !.isStreaming = FALSE,
            !.sessions =
               [t \in 1..Len(@) |->
                  IF @[t].pc = "import"
                  THEN [@[t] EXCEPT !.pc = "closed", !.history = <<>>,
                                    !.outcome = "importFailed"]
                  ELSE @[t]]]

\* a faulty variant: the reasoning text goes to the user message of the call
onReasoningChunkToUser(m, s, chunk) ==
  LET sess == m.sessions[s]
      m1   == updateReasoningContent(m, sess.conv, sess.user, chunk)
  IN  [m1 EXCEPT !.sessions[s].rlog = @ \o chunk, !.sessions[s].n = @ + 1]

\* lines 268-275
onReasoningChunk(m, s, chunk) ==
  LET sess == m.sessions[s]
      cur  == MessageIn(m.conversations, sess)
      m1   == IF cur = <<>> THEN m
              ELSE updateReasoningContent(
                     m, sess.conv, sess.msg,
                     (IF cur[1].reasoningContent = Undefined THEN <<>>
                      ELSE cur[1].reasoningContent[1]) \o chunk)
  IN  [m1 EXCEPT !.sessions[s].rlog = @ \o chunk, !.sessions[s].n = @ + 1]

\* a faulty variant: the chunk goes to the newest message of whatever
\* conversation is active when it arrives
onChunkToActive(m, s, chunk) ==
  LET i  == IndexOf(m.conversations, m.activeConversationId)
      m1 == IF i = 0 THEN m
            ELSE IF m.conversations[i].messages = <<>> THEN m
            ELSE LET last == m.conversations[i].messages[
                               Len(m.conversations[i].messages)]
                 IN  updateMessage(m, m.activeConversationId, last.id,
                                   last.content \o chunk)
  IN  [m1 EXCEPT !.sessions[s].clog = @ \o chunk, !.sessions[s].n = @ + 1]

\* lines 281-289
onChunk(m, s, chunk) ==
  LET sess == m.sessions[s]
      cur  == MessageIn(m.conversations, sess)
      m1   == IF cur = <<>> THEN m
              ELSE updateMessage(m, sess.conv, sess.msg,
                                 cur[1].content \o chunk)
  IN  [m1 EXCEPT !.sessions[s].clog = @ \o chunk, !.sessions[s].n = @ + 1]

\* Lines 190-214 of part_004 with the callbacks sendMessage passes: one
\* delta is routed.  isAnswering is true once onChunk has been invoked
\* (line 207 is followed by line 210).  An exception a callback throws
\* leaves the try block and is logged by its catch (lines 212-214).
onFrame(m, s, delta) ==
  LET m0 == [m EXCEPT !.sessions[s].frames = Append(@, delta)]
      m1 == IF delta.reasoning # NoField /\ m.sessions[s].clog = <<>>
            THEN onReasoningChunk(m0, s, delta.reasoning[1])
            ELSE m0
  IN  IF m1.thrown THEN [m1 EXCEPT !.thrown = FALSE]
      ELSE IF delta.content # NoField /\ delta.content[1] # <<>>
      THEN [onChunk(m1, s, delta.content[1]) EXCEPT !.thrown = FALSE]
      ELSE m1

\* a faulty variant: nothing is reset when the message is no longer found
onCompleteSkipsGone(m, s) ==
  LET sess == m.sessions[s]
      cur  == MessageIn(m.conversations, sess)
      m1   == [m EXCEPT !.sessions[s].pc = "closed",
                        !.sessions[s].history = <<>>,
                        !.sessions[s].outcome = "complete",
                        !.sessions[s].ended = m.now]
  IN  IF cur = <<>> THEN m1
      ELSE [m1 EXCEPT !.conversations =
                         Patch(@, sess, [cur[1] EXCEPT !.isStreaming = FALSE]),
                      !.isLoading = FALSE, !.isStreaming = FALSE]

\* lines 294-304, and the return of sendStreamMessage and of sendMessage
onComplete(m, s) ==
  LET sess == m.sessions[s]
      cur  == MessageIn(m.conversations, sess)
  IN  [m EXCEPT !.conversations =
                   IF cur = <<>> THEN @
                   ELSE Patch(@, sess, [cur[1] EXCEPT !.isStreaming = FALSE]),
                !.isLoading = FALSE, !.isStreaming = FALSE,
                !.sessions[s].pc = "closed",
                !.sessions[s].history = <<>>,
                !.sessions[s].outcome = "complete",
                !.sessions[s].ended = m.now]

\* a faulty variant: the diagnostic text is appended to the partial answer
onErrorAppends(m, s, message) ==
  LET sess == m.sessions[s]
      cur  == MessageIn(m.conversations, sess)
  IN  [m EXCEPT !.conversations =
                   IF cur = <<>> THEN @
                   ELSE Patch(@, sess,
                              [cur[1] EXCEPT !.isStreaming = FALSE,
                                             !.content = @ \o ErrorText(message)]),
                !.isLoading = FALSE, !.isStreaming = FALSE,
                !.sessions[s].pc = "closed",
                !.sessions[s].history = <<>>,
                !.sessions[s].outcome = "error",
                !.sessions[s].ended = m.now,
                !.sessions[s].error = message]

\* lines 309-322, and the return of sendStreamMessage and of sendMessage
onError(m, s, message) ==
  LET sess == m.sessions[s]
      cur  == MessageIn(m.conversations, sess)
  IN  [m EXCEPT !.conversations =
                   IF cur = <<>> THEN @
                   ELSE Patch(@, sess,
                              [cur[1] EXCEPT !.isStreaming = FALSE,
                                             !.content = ErrorText(message)]),
                !.isLoading = FALSE, !.isStreaming = FALSE,
                !.sessions[s].pc = "closed",
                !.sessions[s].history = <<>>,
                !.sessions[s].outcome = "error",
                !.sessions[s].ended = m.now,
                !.sessions[s].error = message]

\* ------------------------------------- the store and its stream sessions ---
\* The steps of the store when its functions are called in any order and
\* the stream sessions deliver what they will.  The clock stands still
\* here: no step depends on a timestamp.
CreateConversation ==
  /\ UNCHANGED <<svars, wvars>>
  /\ UNCHANGED uvars
  /\ IdsLeft(1)
  /\ SetMem(createConversation(Mem))

DeleteConversation ==
  /\ UNCHANGED <<svars, wvars>>
  /\ UNCHANGED uvars
  /\ \E i \in 1..Len(conversations) :
    /\ Len(conversations) > 1 \/ IdsLeft(1)
    /\ SetMem(deleteConversation(Mem, conversations[i].id))

\* lines 129-131; the UI passes the id of a listed conversation
SwitchConversation ==
  /\ UNCHANGED <<svars, wvars>>
  /\ UNCHANGED uvars
  /\ \E i \in 1..Len(conversations) :
       SetMem(switchConversation(Mem, conversations[i].id))

SendMessage ==
  /\ UNCHANGED <<svars, wvars>>
  /\ UNCHANGED uvars
  /\ \E content \in Inputs :
    /\ IdsLeft(2)
    /\ SetMem(sendMessage(Mem, content))

ImportResolve ==
  /\ UNCHANGED <<svars, wvars>>
  /\ UNCHANGED uvars
  /\ \E s \in 1..Len(sessions) :
    /\ sessions[s].pc = "import"
    /\ SetMem(importResolved(Mem, s))

\* the module was loaded by some call: import() of the same specifier
\* then resolves from the module map and cannot fail any more
Imported ==
  \E t \in 1..Len(sessions) :
    sessions[t].pc = "stream" \/ sessions[t].outcome \in {"complete", "error"}

ImportReject ==
  /\ UNCHANGED <<svars, wvars>>
  /\ UNCHANGED uvars
  /\ ~Imported
  /\ \E s \in 1..Len(sessions) : sessions[s].pc = "import"
  /\ SetMem(importRejected(Mem))

OnReasoningChunk ==
  /\ UNCHANGED <<svars, wvars>>
  /\ UNCHANGED uvars
  /\ \E s \in 1..Len(sessions) :
    /\ sessions[s].pc = "stream" /\ ChunksDelivered < MaxChunks
    /\ SetMem(onReasoningChunk(Mem, s, ChunkNo(sessions[s].n + 1)))

OnChunk ==
  /\ UNCHANGED <<svars, wvars>>
  /\ UNCHANGED uvars
  /\ \E s \in 1..Len(sessions) :
    /\ sessions[s].pc = "stream" /\ ChunksDelivered < MaxChunks
    /\ SetMem(onChunk(Mem, s, ChunkNo(sessions[s].n + 1)))

OnComplete ==
  /\ UNCHANGED <<svars, wvars>>
  /\ UNCHANGED uvars
  /\ \E s \in 1..Len(sessions) :
    /\ sessions[s].pc = "stream"
    /\ SetMem(onComplete(Mem, s))

OnError ==
  /\ UNCHANGED <<svars, wvars>>
  /\ UNCHANGED uvars
  /\ \E s \in 1..Len(sessions) :
    /\ sessions[s].pc = "stream"
    /\ SetMem(onError(Mem, s, ErrorAfter(sessions[s].n)))

StoreNext ==
  \/ CreateConversation
  \/ DeleteConversation
  \/ SwitchConversation
  \/ SendMessage
  \/ ImportResolve
  \/ ImportReject
  \/ OnReasoningChunk
  \/ OnChunk
  \/ OnComplete
  \/ OnError

\* ------------------------------------------- the store, call by call ---
\* The functions the store exports, called one after the other with any
\* arguments, ids no conversation or message has included.  op is the call
\* made last and pre the state it was made in; the clock may have advanced
\* between two calls.
UnknownId == 99

ConvIds == { conversations[i].id : i \in 1..Len(conversations) } \cup {UnknownId}
MsgIds ==
  UNION { { conversations[i].messages[k].id :
              k \in 1..Len(conversations[i].messages) } :
          i \in 1..Len(conversations) } \cup {UnknownId}

Chars(n) == [k \in 1..n |-> "x"]
\* message texts: 2, 20 and 21 characters
Contents == { <<"H", "i">>, Chars(TitleLen), Chars(TitleLen + 1) }
\* what sendMessage is called with: empty, blank, and text to be trimmed
SendInputs == { <<>> } \cup Inputs

Times == { now, now + 1 }
At(t) == [Mem EXCEPT !.now = t]

Called(name, id, msg, role, content, returned) ==
  [name |-> name, seq |-> op.seq + 1, id |-> id, msg |-> msg, role |-> role,
   content |-> content, returned |-> returned, rejected |-> FALSE]

\* the call yields the state m; rejected tells that it threw (that the
\* promise it returned was rejected)
Calling(m, call) ==
  /\ UNCHANGED <<svars, wvars>>
  /\ op.seq < MaxCalls
  /\ SetMem(m)
  /\ op' = [call EXCEPT !.rejected = m.thrown]
  /\ pre' = Mem

CallCreateConversation ==
  \E t \in Times :
    Calling(createConversation(At(t)),
            Called("createConversation", Null, Null, "", <<>>, TRUE))

CallDeleteConversation ==
  \E t \in Times, id \in ConvIds :
    Calling(deleteConversation(At(t), id),
            Called("deleteConversation", id, Null, "", <<>>, FALSE))

CallSwitchConversation ==
  \E t \in Times, id \in ConvIds :
    Calling(switchConversation(At(t), id),
            Called("switchConversation", id, Null, "", <<>>, FALSE))

CallAddMessage ==
  \E t \in Times, id \in ConvIds, role \in {"user", "assistant"},
     content \in Contents :
    Calling(addMessage(At(t), id, role, content, FALSE),
            Called("addMessage", id, Null, role, content,
                   addMessage(At(t), id, role, content, FALSE).nextMsgId
                     # nextMsgId))

CallUpdateMessage ==
  \E t \in Times, id \in ConvIds, msg \in MsgIds :
    Calling(updateMessage(At(t), id, msg, <<"z">>),
            Called("updateMessage", id, msg, "", <<"z">>, FALSE))

CallUpdateReasoningContent ==
  \E t \in Times, id \in ConvIds, msg \in MsgIds :
    Calling(updateReasoningContent(At(t), id, msg, <<"z">>),
            Called("updateReasoningContent", id, msg, "", <<"z">>, FALSE))

CallSendMessage ==
  \E t \in Times, content \in SendInputs :
    Calling(sendMessage(At(t), content),
            Called("sendMessage", Null, Null, "", content, FALSE))

UnitNext ==
  \/ CallCreateConversation
  \/ CallDeleteConversation
  \/ CallSwitchConversation
  \/ CallAddMessage
  \/ CallUpdateMessage
  \/ CallUpdateReasoningContent
  \/ CallSendMessage

\* the store as built, or after the loadConversations of start-up
UnitStart ==
  /\ \/ IsMem(NewStore)
     \/ IsMem(loadConversations(NewStore))
  /\ op = NoCall
  /\ pre = NewStore

\* ------------------------------------- the store on a storage that fills ---
\* localStorage.setItem throws once the quota of the origin is used up,
\* and accepts writes again when room was made (another tab of the
\* application shares the storage).
StorageFills ==
  /\ UNCHANGED <<svars, wvars>>
  /\ UNCHANGED uvars
  /\ ~localStorage.full
  /\ SetMem([Mem EXCEPT !.localStorage.full = TRUE])

StorageFrees ==
  /\ UNCHANGED <<svars, wvars>>
  /\ UNCHANGED uvars
  /\ localStorage.full
  /\ SetMem([Mem EXCEPT !.localStorage.full = FALSE])

QuotaNext ==
  \/ StorageFills
  \/ StorageFrees
  \/ CallCreateConversation
  \/ CallDeleteConversation
  \/ CallSwitchConversation
  \/ CallSendMessage

\* --------------------------------------------- the store at start-up ---
\* loadConversations called on the store as built, with whatever an
\* earlier visit, or anything else writing to the origin's storage, left
\* in the two items.
StoredIds == { -1, -2 }
StoredConversation(id, n) ==
  [id |-> id, title |-> <<"m">>,
   messages |-> [k \in 1..n |->
                   [id |-> k - n - 1,
                    role |-> IF k % 2 = 1 THEN "user" ELSE "assistant",
                    content |-> <<"m">>, isStreaming |-> FALSE,
                    reasoningContent |-> Undefined, timestamp |-> 0]],
   createdAt |-> 0, updatedAt |-> 0]
StoredLists ==
  { <<>> }
  \cup { << StoredConversation(a, n) >> : a \in StoredIds, n \in 0..1 }
  \cup { << StoredConversation(p[1], 0), StoredConversation(p[2], 1) >> :
           p \in { q \in StoredIds \X StoredIds : q[1] # q[2] } }
ConversationItems ==
  { NoItem, Item(<<>>), Item(Unparsable) }
  \cup { Item(stringify(l)) : l \in StoredLists }
ActiveItems ==
  { NoItem, Item(<<>>) }
  \cup { Item(<<id>>) : id \in StoredIds \cup {UnknownId} }

CallLoadConversations ==
  Calling(loadConversations(Mem),
          Called("loadConversations", Null, Null, "", <<>>, FALSE))

LoadNext == CallLoadConversations

LoadStart ==
  /\ \E c \in ConversationItems, a \in ActiveItems :
       IsMem([NewStore EXCEPT !.localStorage =
                [conversations |-> c, activeConversationId |-> a,
                 full |-> FALSE]])
  /\ op = NoCall
  /\ pre = NewStore

\* lines 773-780 of part_005: the view sends only while nothing is loading
HandleSend ==
  /\ ~isLoading
  /\ SendMessage

\* ---------------------------------------------- the store and the clock ---
\* Date.now() advances between two steps of the store.
Tick ==
  /\ UNCHANGED <<svars, wvars>>
  /\ UNCHANGED uvars
  /\ now < MaxTime
  /\ SetMem([Mem EXCEPT !.now = @ + 1])

TimedNext ==
  \/ Tick
  \/ HandleSend
  \/ ImportResolve
  \/ ImportReject
  \/ OnReasoningChunk
  \/ OnChunk
  \/ OnComplete
  \/ OnError

\* ------------------------------------ the store, frame by frame ---
\* The sessions deliver whole frames, whose delta carries reasoning,
\* answer text or both, while the storage fills and frees.
RECURSIVE SumFrames(_)
SumFrames(ss) ==
  IF ss = <<>> THEN 0 ELSE Len(Head(ss).frames) + SumFrames(Tail(ss))

\* the chunks of the frame a session decodes next
DeltasOf(sess) ==
  LET r == ChunkNo(2 * Len(sess.frames) + 1)
      c == ChunkNo(2 * Len(sess.frames) + 2)
  IN  { Choice(Some(r), NoField), Choice(NoField, Some(c)),
        Choice(Some(r), Some(c)) }

OnFrame ==
  /\ UNCHANGED <<svars, wvars>>
  /\ UNCHANGED uvars
  /\ \E s \in 1..Len(sessions) :
    /\ sessions[s].pc = "stream" /\ SumFrames(sessions) < MaxChunks
    /\ \E delta \in DeltasOf(sessions[s]) :
         SetMem(onFrame(Mem, s, delta))

FrameNext ==
  \/ StorageFills
  \/ StorageFrees
  \/ HandleSend
  \/ ImportResolve
  \/ ImportReject
  \/ OnFrame
  \/ OnComplete
  \/ OnError

\* --------------------------------------------- the store under the view ---
\* The store as ChatView drives it: loadConversations at start-up (line
\* 641 of part_005) from a storage that holds one conversation with some
\* messages of earlier visits, then the user's actions, with handleSend
\* refusing to send while isLoading (line 774 of part_005).
\* a storage holding one conversation of n messages
Stored(n) ==
  [conversations |->
     Item(stringify(<< StoredConversation(-1, n) >>)),
   activeConversationId |-> Item(<< -1 >>),
   full |-> FALSE]

ViewNext ==
  \/ HandleSend
  \/ ImportResolve
  \/ ImportReject
  \/ OnReasoningChunk
  \/ OnChunk
  \/ OnComplete
  \/ OnError

ViewStart ==
  /\ \E n \in 0..MaxStored :
       IsMem(loadConversations([NewStore EXCEPT !.localStorage = Stored(n)]))
  /\ op = NoCall
  /\ pre = NewStore

\* the store while a sendStreamMessage call is looked at on its own
StoreIdle ==
  /\ IsMem(NewStore)
  /\ op = NoCall
  /\ pre = NewStore

\* a sendStreamMessage call while the store is looked at on its own
StreamIdle ==
  /\ pc = "returned"
  /\ timer = "cleared"
  /\ aborted = FALSE
  /\ response = NoResponse
  /\ body = <<>>
  /\ pos = 0
  /\ buffer = <<>>
  /\ isAnswering = FALSE
  /\ calls = <<>>

(***************************************************************************)
(*              Part III: the request wrapper (request/http.ts)            *)
(***************************************************************************)
\* The axios instance with its two interceptors.  A request is issued and
\* passes the request interceptor; later its response, or the error of
\* the transport, passes the response interceptor.  The overlay and the
\* counter belong to the module and are shared by all requests.
Loading == [loadingCount |-> loadingCount, loadingInstance |-> loadingInstance]

\* lines 54-63
showLoading(h) ==
  [loadingCount |-> h.loadingCount + 1,
   loadingInstance |-> IF h.loadingCount = 0 THEN TRUE ELSE h.loadingInstance]

\* lines 68-74
hideLoading(h) ==
  [loadingCount |-> h.loadingCount - 1,
   loadingInstance |-> IF h.loadingCount - 1 = 0 /\ h.loadingInstance
                       THEN FALSE ELSE h.loadingInstance]

SetLoading(h) ==
  /\ loadingCount' = h.loadingCount
  /\ loadingInstance' = h.loadingInstance

\* config.showLoading: not given, true or false
ShowLoadingOptions == { Undefined, Some(TRUE), Some(FALSE) }
\* response.data.code: two that mean success, unauthorized, another
Codes == { 0, 200, 401, 500 }

\* lines 95-114: a request is issued and passes the request interceptor
RequestFulfilled ==
  /\ UNCHANGED <<svars, cvars, lvars>>
  /\ Len(requests) < MaxRequests
  /\ \E option \in ShowLoadingOptions :
    /\ SetLoading(IF option # Some(FALSE) THEN showLoading(Loading)
                  ELSE Loading)
    /\ requests' = Append(requests, [showLoading |-> option, pc |-> "sent"])

\* lines 131-163: the response arrives with a 2xx status
ResponseFulfilled ==
  /\ UNCHANGED <<svars, cvars, lvars>>
  /\ \E i \in 1..Len(requests), code \in Codes :
    /\ requests[i].pc = "sent"
    /\ SetLoading(hideLoading(Loading))
    /\ requests' = [requests EXCEPT ![i].pc =
                      IF code = 200 \/ code = 0 THEN "resolved"
                      ELSE "rejected"]

\* lines 164-222: another status, no response, or the request was not sent
ResponseRejected ==
  /\ UNCHANGED <<svars, cvars, lvars>>
  /\ \E i \in 1..Len(requests) :
    /\ requests[i].pc = "sent"
    /\ SetLoading(hideLoading(Loading))
    /\ requests' = [requests EXCEPT ![i].pc = "rejected"]

LoadingNext ==
  \/ RequestFulfilled
  \/ ResponseFulfilled
  \/ ResponseRejected

(***************************************************************************)
(*              Part IV: useVirtualList (utils/virtualList.ts)             *)
(***************************************************************************)
\* One list: its options are fixed when useVirtualList is called, items
\* is a ref the caller replaces, and scrollTop follows the scroll events
\* of the container.  Lengths are whole pixels; indices count from 0 as
\* in the source.
Max(a, b) == IF a >= b THEN a ELSE b
Min(a, b) == IF a <= b THEN a ELSE b
\* Math.floor(a / b) and Math.ceil(a / b) for a >= 0 and b > 0
Floor(a, b) == a \div b
Ceil(a, b) == (a + b - 1) \div b

\* lines 66-68
totalHeight == Len(items) * itemHeight

\* lines 73-75
startIndex == Max(0, Floor(scrollTop, itemHeight) - overscan)

\* lines 80-86
endIndex ==
  LET visibleCount == Ceil(containerHeight, itemHeight)
  IN  Min(Len(items) - 1, startIndex + visibleCount + overscan * 2)

\* lines 91-103: the items from startIndex to endIndex that exist
visibleItems ==
  LET range == [k \in 1..Max(0, endIndex - startIndex + 1) |-> startIndex + k - 1]
      there == SelectSeq(range, LAMBDA i : i + 1 \in DOMAIN items)
  IN  [k \in 1..Len(there) |-> [index |-> there[k], data |-> items[there[k] + 1]]]

\* lines 122-131
contentStyle ==
  LET topPadding == startIndex * itemHeight
      bottomPadding == Max(0, (Len(items) - endIndex - 1) * itemHeight)
  IN  [paddingTop |-> topPadding, paddingBottom |-> bottomPadding]

\* the lists of n items
ItemsOf(n) == [k \in 1..n |-> "line"]

\* how far the container can be scrolled: the height of its content (the
\* paddings and the rendered items, each itemHeight high) less its own
scrollTopMax ==
  Max(0, contentStyle.paddingTop + Len(visibleItems) * itemHeight
           + contentStyle.paddingBottom - containerHeight)

\* lines 136-139: the container was scrolled
HandleScroll ==
  /\ UNCHANGED <<svars, cvars, hvars>>
  /\ UNCHANGED <<items, itemHeight, containerHeight, overscan>>
  /\ \E position \in 0..scrollTopMax :
       /\ position # scrollTop
       /\ scrollTop' = position

\* the caller assigns items.value
SetItems ==
  /\ UNCHANGED <<svars, cvars, hvars>>
  /\ UNCHANGED <<itemHeight, containerHeight, overscan, scrollTop>>
  /\ \E n \in 0..MaxItems :
       /\ n # Len(items)
       /\ items' = ItemsOf(n)

ListNext ==
  \/ HandleScroll
  \/ SetItems

\* lines 47-58: useVirtualList is called
ListStart ==
  /\ items \in { ItemsOf(n) : n \in 0..MaxItems }
  /\ itemHeight \in 1..MaxItemHeight
  /\ containerHeight \in 0..MaxContainerHeight
  /\ overscan \in 0..MaxOverscan
  /\ scrollTop = 0

\* the request wrapper and the virtual list while another part is looked at
LoadingIdle ==
  /\ loadingCount = 0
  /\ loadingInstance = FALSE
  /\ requests = <<>>

ListIdle ==
  /\ items = <<>>
  /\ itemHeight = 1
  /\ containerHeight = 0
  /\ overscan = 0
  /\ scrollTop = 0

vars == <<svars, cvars, wvars>>

Init == StreamInit /\ StoreIdle /\ LoadingIdle /\ ListIdle
Next == StreamNext

\* Safety specification of one sendStreamMessage call.
Spec == Init /\ [][Next]_vars

\* The same with what the platform guarantees: an armed timer fires after
\* 60 seconds, and an aborted fetch rejects.  Nothing obliges the server
\* to answer, to send the next chunk or to close the stream.
FairSpec == Spec /\ WF_vars(TimerFire) /\ WF_vars(FetchAbort)

\* Specification of the store, with the stream sessions as its environment.
StoreStart == StoreInit /\ StreamIdle /\ LoadingIdle /\ ListIdle
StoreSpec == StoreStart /\ [][StoreNext]_vars

\* Specification of the store's functions, called one by one.
UnitInit == UnitStart /\ StreamIdle /\ LoadingIdle /\ ListIdle
UnitSpec == UnitInit /\ [][UnitNext]_vars

\* The store's functions called one after the other while the storage
\* fills and frees.
QuotaSpec == UnitInit /\ [][QuotaNext]_vars

\* loadConversations on any stored data.
LoadInit == LoadStart /\ StreamIdle /\ LoadingIdle /\ ListIdle
LoadSpec == LoadInit /\ [][LoadNext]_vars

\* The store and its stream sessions while time passes.
TimedSpec == StoreStart /\ [][TimedNext]_vars

\* The store and its stream sessions, frame by frame, on a storage that
\* fills and frees.
FrameSpec == StoreStart /\ [][FrameNext]_vars

\* Specification of the request wrapper: the module as loaded, then
\* requests in any number and order.
LoadingInit == StreamIdle /\ StoreIdle /\ LoadingIdle /\ ListIdle
LoadingSpec == LoadingInit /\ [][LoadingNext]_vars

\* Specification of one virtual list.
ListInit == StreamIdle /\ StoreIdle /\ LoadingIdle /\ ListStart
ListSpec == ListInit /\ [][ListNext]_vars

\* Specification of the store as the view drives it.
ViewInit == ViewStart /\ StreamIdle /\ LoadingIdle /\ ListIdle
ViewSpec == ViewInit /\ [][ViewNext]_vars

(***************************************************************************)
(*                     Properties of useChatStore                          *)
(***************************************************************************)
\* the text of an optional field, an absent one reading as the empty text
TextOf(opt) == IF opt = Undefined THEN <<>> ELSE opt[1]

Listed(sess) == IndexOf(conversations, sess.conv) # 0

\* C1: once a stream session has completed normally (onComplete) and its
\* conversation is still in the list, the content of its assistant message
\* is the concatenation of the content chunks the session delivered, in
\* arrival order, and its reasoningContent that of the reasoning chunks,
\* whatever createConversation, switchConversation and other sendMessage
\* calls were interleaved.
C1_ChunksConcatenated ==
  \A s \in 1..Len(sessions) :
    LET sess == sessions[s]
    IN  (sess.outcome = "complete" /\ Listed(sess))
          => /\ MessageOf(sess) # <<>>
             /\ MessageOf(sess)[1].content = sess.clog
             /\ TextOf(MessageOf(sess)[1].reasoningContent) = sess.rlog

\* a session that received two content chunks has completed, while
\* another conversation was created and made active and another
\* sendMessage call was made
C1_Witness ==
  \E s \in 1..Len(sessions) :
    /\ sessions[s].outcome = "complete"
    /\ sessions[s].clog = <<"a", "b">>
    /\ Listed(sessions[s])
    /\ activeConversationId # sessions[s].conv
    /\ Len(conversations) > 1
    /\ Len(sessions) > 1

(***************************************************************************)
(*                 Properties of sendStreamMessage                         *)
(***************************************************************************)
Count(cb) == Cardinality({ i \in 1..Len(calls) : calls[i].cb = cb })
IsTerminal(c) == c.cb \in {"onComplete", "onError"}
Terminated == \E i \in 1..Len(calls) : IsTerminal(calls[i])
Completed == calls # <<>> /\ Last(calls).cb = "onComplete"
ChunkCalls == SelectSeq(calls, LAMBDA c : ~IsTerminal(c))

\* a body line and its newline
Line(l) == l \o <<NL>>
\* the complete lines among the tokens read so far
Delivered == SubSeq(body, 1, pos)
DeliveredLines == ButLast(Split(Delivered))

\* C2: once onChunk has been invoked no onReasoningChunk follows it in the
\* log of the call, and isAnswering never goes back from TRUE to FALSE.
C2_NoReasoningAfterContent ==
  \A i, j \in 1..Len(calls) :
    (i < j /\ calls[i].cb = "onChunk") => calls[j].cb # "onReasoningChunk"

C2_PhaseLatch ==
  /\ [](C2_NoReasoningAfterContent /\ (Count("onChunk") > 0 => isAnswering))
  /\ [][isAnswering => isAnswering']_vars

\* a reasoning frame arrived after the answer had started and was dropped
C2_Witness ==
  /\ body = Line(<<DATA, SP, "jAnswer">>) \o Line(<<DATA, SP, "jThink">>)
  /\ pos = Len(body)
  /\ isAnswering
  /\ calls = <<Call("onChunk", "answer")>>

\* C3: in every state of a call onComplete has fired at most once, onError
\* at most once, and not both.
C3_AtMostOneTerminal ==
  /\ Count("onComplete") <= 1
  /\ Count("onError") <= 1
  /\ Count("onComplete") + Count("onError") <= 1

\* the stream broke after a chunk had been delivered
C3_Witness ==
  /\ pc = "returned"
  /\ Count("onChunk") >= 1
  /\ Count("onError") = 1

\* C4: the chunk callbacks are those the complete lines read so far carry,
\* frame by frame in arrival order (within a frame the reasoning text, then
\* the answer text; reasoning only while no answer text has been
\* delivered), nothing coalesced, and onComplete comes last.
\* What a line carries, stated line by line:
C4_Carried(l) ==
  CASE l = <<DATA, SP, "jThink">>               -> [r |-> <<"think">>, c |-> <<>>]
    [] l = <<SP, DATA, SP, SP, "jThink2", CR>>  -> [r |-> <<"more">>, c |-> <<>>]
    [] l = <<DATA, SP, "jAnswer">>              -> [r |-> <<>>, c |-> <<"answer">>]
    [] l = <<DATA, SP, "jBoth">>                -> [r |-> <<"hm">>, c |-> <<"ok">>]
    [] OTHER                                    -> [r |-> <<>>, c |-> <<>>]

RECURSIVE C4_Expected(_, _)
C4_Expected(lines, answering) ==
  IF lines = <<>> THEN <<>>
  ELSE LET d == C4_Carried(Head(lines))
           r == IF d.r # <<>> /\ ~answering
                THEN <<Call("onReasoningChunk", d.r[1])>> ELSE <<>>
           c == IF d.c # <<>> THEN <<Call("onChunk", d.c[1])>> ELSE <<>>
       IN  r \o c \o C4_Expected(Tail(lines), answering \/ d.c # <<>>)

C4_ArrivalOrder ==
  /\ ChunkCalls = C4_Expected(DeliveredLines, FALSE)
  /\ \A i \in 1..Len(calls) : IsTerminal(calls[i]) => i = Len(calls)
  /\ Completed => calls = C4_Expected(ButLast(Split(body)), FALSE)
                            \o <<Call("onComplete", <<>>)>>

\* the example: a reasoning frame, a content frame, [DONE], end of input
C4_Witness ==
  /\ body = Line(<<DATA, SP, "jThink">>) \o Line(<<DATA, SP, "jAnswer">>)
              \o Line(<<DATA, SP, DONE>>)
  /\ calls = << Call("onReasoningChunk", "think"), Call("onChunk", "answer"),
                Call("onComplete", <<>>) >>

\* C5: when the response had a non-2xx status or no body and the call has
\* returned, exactly one onError and no other callback has fired, the
\* timer is cleared, and for a non-2xx status the message of the error
\* contains the status.
C5_Rejected ==
  response # NoResponse /\ (~Ok(response.status) \/ ~response.hasBody)

C5_StatusError ==
  (pc = "returned" /\ C5_Rejected) =>
     /\ Len(calls) = 1
     /\ calls[1].cb = "onError"
     /\ timer = "cleared"
     /\ ~Ok(response.status) =>
          \E k \in 1..Len(calls[1].arg) :
             calls[1].arg[k] = ToString(response.status)

\* C6: a malformed data frame invokes nothing and ends nothing: the log
\* is the log of the same lines with the malformed frames left out, no
\* onError reports a parse failure, and the call is still reading after
\* it (so that end of input completes it).
C6_IsMalformed(l) == l = <<DATA, SP, BAD>>
C6_WellFormed(l) == ~C6_IsMalformed(l)

C6_MalformedSkipped ==
  /\ ChunkCalls =
       ProcessLines(SelectSeq(DeliveredLines, C6_WellFormed),
                    DecState(FALSE, <<>>)).calls
  /\ \A i \in 1..Len(calls) :
       calls[i].cb = "onError" => calls[i].arg # SyntaxError.message
  /\ (pc = "read" /\ pos = Len(body)) => ENABLED ReadDone

\* a malformed frame between two valid frames, then end of input
C6_Witness ==
  /\ body = Line(<<DATA, SP, "jThink">>) \o Line(<<DATA, SP, BAD>>)
              \o Line(<<DATA, SP, "jAnswer">>)
  /\ calls = << Call("onReasoningChunk", "think"), Call("onChunk", "answer"),
                Call("onComplete", <<>>) >>

\* C7: however the tokens read so far were cut into chunks, the callbacks
\* are those of the same tokens arriving as one chunk, the buffer holds
\* exactly the text after the last newline, and on completion that text
\* has been dropped without being dispatched.
C7_OneChunk(text) ==
  LET fed == Feed(<<>>, text)
  IN  [st  |-> ProcessLines(fed.lines, DecState(FALSE, <<>>)),
       buffer |-> fed.buffer]

C7_SplitIndependent ==
  pc \in {"read", "returned"} /\ response.hasBody /\ Ok(response.status) =>
    LET one == C7_OneChunk(Delivered)
    IN  /\ ChunkCalls = one.st.calls
        /\ isAnswering = one.st.isAnswering
        /\ buffer = one.buffer
        /\ buffer = Last(Split(Delivered))
        /\ Completed =>
             calls = ProcessLines(ButLast(Split(body)), DecState(FALSE, <<>>)).calls
                       \o <<Call("onComplete", <<>>)>>

\* the stream ended inside a frame that was never dispatched
C7_Witness ==
  /\ body = Line(<<DATA, SP, "jThink">>) \o <<DATA, SP, "jAnswer">>
  /\ buffer = <<DATA, SP, "jAnswer">>
  /\ calls = << Call("onReasoningChunk", "think"), Call("onComplete", <<>>) >>

\* C8: once onComplete or onError has fired the call has returned with its
\* timer no longer armed (so no later expiry), and no step of the call
\* invokes a callback.
C8_TerminalFinal ==
  /\ [](Terminated => (pc = "returned" /\ timer # "armed"))
  /\ [][Terminated => calls' = calls]_vars

C8_Witness ==
  /\ pc = "returned"
  /\ Completed
  /\ Count("onChunk") >= 1

\* C9: every call eventually fires onComplete or onError.
C9_EventuallyTerminal == <>Terminated

\* C10: when the timer has fired (which it does only while the fetch is
\* pending) the signal is aborted, and once the call has returned the one
\* callback invoked is onError with the timeout error.
C10_TimeoutWhileSending ==
  timer = "fired" =>
    /\ aborted
    /\ pc \in {"fetch", "returned"}
    /\ pc = "fetch" => calls = <<>>
    /\ pc = "returned" => calls = <<Call("onError", TimeoutMsg)>>

C10_Witness ==
  /\ timer = "fired"
  /\ pc = "returned"
  /\ calls = <<Call("onError", TimeoutMsg)>>

\* C11: a call that has returned after a failure (fetch rejected, status
\* not 2xx, no body, the body could not be read, timeout, any thrown value)
\* has invoked exactly one terminal callback, onError.
C11_Failed == pc = "returned" /\ ~Completed

C11_FailureSurfaces ==
  C11_Failed => (Count("onError") = 1 /\ Last(calls).cb = "onError")

\* ------------------------------------------------------------------ C12 ---
\* C12: deleteConversation(id) of the active conversation makes the first
\* remaining conversation active; when none remains, exactly one fresh
\* empty conversation is created and becomes active.
C12_DeletedActive ==
  /\ op.name = "deleteConversation"
  /\ op.id = pre.activeConversationId
  /\ IndexOf(pre.conversations, op.id) # 0

C12_DeleteActive ==
  C12_DeletedActive =>
    LET rest == Splice(pre.conversations, IndexOf(pre.conversations, op.id))
    IN  IF rest # <<>>
        THEN /\ conversations = rest
             /\ activeConversationId = rest[1].id
        ELSE /\ Len(conversations) = 1
             /\ conversations[1].messages = <<>>
             /\ conversations[1].title = NewTitle
             /\ conversations[1].id # op.id
             /\ activeConversationId = conversations[1].id

\* the only conversation, which held a message, was deleted
C12_Witness ==
  /\ C12_DeletedActive
  /\ Len(pre.conversations) = 1
  /\ pre.conversations[1].messages # <<>>
  /\ Len(conversations) = 1

\* the active conversation was deleted and another one remained
C12_WitnessRest ==
  /\ C12_DeletedActive
  /\ Len(pre.conversations) > 1

\* ------------------------------------------------------------------ C13 ---
\* C13: in every state reached after loadConversations by createConversation,
\* deleteConversation, sendMessage with its stream callbacks and
\* switchConversation to an existing conversation, there is at least one
\* conversation and activeConversationId is the id of a listed conversation.
C13_ActiveExists ==
  /\ Len(conversations) > 0
  /\ IndexOf(conversations, activeConversationId) # 0

\* the conversation of a stream session was deleted as the only one, and
\* the conversation created in its place is the active one
C13_Witness ==
  /\ \E s \in 1..Len(sessions) : ~Listed(sessions[s])
  /\ Len(conversations) = 1
  /\ conversations[1].messages = <<>>
  /\ activeConversationId = conversations[1].id

\* ------------------------------------------------------------------ C14 ---
\* C14: deleteConversation of a conversation that is not the active one
\* leaves activeConversationId, every other conversation (messages, title,
\* updatedAt) and the flags isLoading and isStreaming as they were.
C14_DeletedOther ==
  /\ op.name = "deleteConversation"
  /\ op.id # pre.activeConversationId
  /\ IndexOf(pre.conversations, op.id) # 0

C14_DeleteOtherFrame ==
  C14_DeletedOther =>
    /\ activeConversationId = pre.activeConversationId
    /\ conversations =
         Splice(pre.conversations, IndexOf(pre.conversations, op.id))
    /\ isLoading = pre.isLoading
    /\ isStreaming = pre.isStreaming

\* a conversation was deleted while another one, holding messages of a
\* running exchange, was active
C14_Witness ==
  /\ C14_DeletedOther
  /\ isLoading /\ isStreaming
  /\ IndexOf(conversations, activeConversationId) # 0
  /\ conversations[IndexOf(conversations, activeConversationId)].messages # <<>>

\* ------------------------------------------------------------------ C15 ---
\* C15: addMessage with an unknown conversationId returns no message, and
\* updateMessage and updateReasoningContent with a conversationId or a
\* messageId that is not found change nothing: the conversations with their
\* updatedAt, the active id, the flags and the stored data stay as they were.
C15_NotFound ==
  \/ /\ op.name = "addMessage"
     /\ IndexOf(pre.conversations, op.id) = 0
  \/ /\ op.name \in {"updateMessage", "updateReasoningContent"}
     /\ LET i == IndexOf(pre.conversations, op.id)
        IN  \/ i = 0
            \/ MsgIndex(pre.conversations[i].messages, op.msg) = 0

C15_UnknownIdsNoOp ==
  C15_NotFound =>
    /\ ~op.returned
    /\ conversations = pre.conversations
    /\ activeConversationId = pre.activeConversationId
    /\ isLoading = pre.isLoading
    /\ isStreaming = pre.isStreaming
    /\ localStorage = pre.localStorage
    /\ nextMsgId = pre.nextMsgId

\* updateMessage was called, at a later time, with an unknown message id on
\* a conversation that holds messages
C15_Witness ==
  /\ C15_NotFound
  /\ op.name = "updateMessage"
  /\ op.msg = UnknownId
  /\ IndexOf(pre.conversations, op.id) # 0
  /\ pre.conversations[IndexOf(pre.conversations, op.id)].messages # <<>>
  /\ now > pre.now

\* addMessage was called with an unknown conversation id
C15_WitnessAdd ==
  /\ C15_NotFound
  /\ op.name = "addMessage"
  /\ pre.conversations # <<>>

\* ------------------------------------------------------------------ C16 ---
\* C16: addMessage changes the title of the conversation if and only if the
\* message is its first one and has role user; the title is then the
\* content when that has at most 20 characters, and its first 20 characters
\* followed by "..." when it has more; in every other case the title stays.
C16_Added ==
  /\ op.name = "addMessage"
  /\ IndexOf(pre.conversations, op.id) # 0

C16_TitleDerivation ==
  C16_Added =>
    LET before == pre.conversations[IndexOf(pre.conversations, op.id)]
        after  == conversations[IndexOf(conversations, op.id)]
    IN  IF before.messages = <<>> /\ op.role = "user"
        THEN /\ Len(op.content) <= 20 => after.title = op.content
             /\ Len(op.content) > 20 =>
                  after.title = SubSeq(op.content, 1, 20) \o <<"...">>
        ELSE after.title = before.title

\* a first user message of exactly 20 characters became the title
C16_Witness ==
  /\ C16_Added
  /\ op.role = "user"
  /\ pre.conversations[IndexOf(pre.conversations, op.id)].messages = <<>>
  /\ Len(op.content) = 20
  /\ conversations[IndexOf(conversations, op.id)].title = op.content

\* a first user message of 21 characters was cut
C16_WitnessLong ==
  /\ C16_Added
  /\ op.role = "user"
  /\ pre.conversations[IndexOf(pre.conversations, op.id)].messages = <<>>
  /\ Len(op.content) = 21
  /\ Len(conversations[IndexOf(conversations, op.id)].title) = 21

\* a user message that was not the first one left the title alone
C16_WitnessLater ==
  /\ C16_Added
  /\ op.role = "user"
  /\ pre.conversations[IndexOf(pre.conversations, op.id)].messages # <<>>

\* ------------------------------------------------------------------ C17 ---
\* C17: sendMessage with empty or whitespace-only content changes nothing:
\* no conversation is created, no message appended, isLoading and
\* isStreaming keep their values, nothing is stored and no stream session
\* is opened.
C17_SentBlank ==
  /\ op.name = "sendMessage"
  /\ \A k \in 1..Len(op.content) : op.content[k] = " "

C17_BlankIgnored ==
  C17_SentBlank =>
    /\ conversations = pre.conversations
    /\ activeConversationId = pre.activeConversationId
    /\ isLoading = pre.isLoading
    /\ isStreaming = pre.isStreaming
    /\ localStorage = pre.localStorage
    /\ sessions = pre.sessions
    /\ nextId = pre.nextId
    /\ nextMsgId = pre.nextMsgId

\* whitespace was sent while no conversation was active
C17_Witness ==
  /\ C17_SentBlank
  /\ op.content # <<>>
  /\ IndexOf(pre.conversations, pre.activeConversationId) = 0

\* the empty text was sent while an exchange was running
C17_WitnessEmpty ==
  /\ C17_SentBlank
  /\ op.content = <<>>
  /\ pre.isLoading

\* ------------------------------------------------------------------ C18 ---
\* C18: a sendMessage with non-blank content, before any stream callback
\* runs, has appended to its target conversation exactly two messages, a
\* user message holding the trimmed input and then an assistant placeholder
\* with empty content and isStreaming true; isLoading and isStreaming are
\* true; a conversation was created first only if none was active.
C18_SentText ==
  /\ op.name = "sendMessage"
  /\ \E k \in 1..Len(op.content) : op.content[k] # " "

\* t is s without the whitespace at its two ends
C18_IsTrimOf(t, s) ==
  /\ t # <<>> /\ Head(t) # " " /\ t[Len(t)] # " "
  /\ \E i \in 0..Len(s) :
       /\ i + Len(t) <= Len(s)
       /\ SubSeq(s, i + 1, i + Len(t)) = t
       /\ \A k \in 1..Len(s) : (k <= i \/ k > i + Len(t)) => s[k] = " "

C18_HadActive == IndexOf(pre.conversations, pre.activeConversationId) # 0

C18_TwoMessages ==
  C18_SentText =>
    LET target == IndexOf(conversations, activeConversationId)
        before == IF C18_HadActive
                  THEN pre.conversations[
                         IndexOf(pre.conversations, pre.activeConversationId)].messages
                  ELSE <<>>
        added  == SubSeq(conversations[target].messages,
                         Len(before) + 1, Len(conversations[target].messages))
    IN  /\ target # 0
        /\ IF C18_HadActive
           THEN /\ activeConversationId = pre.activeConversationId
                /\ Len(conversations) = Len(pre.conversations)
                /\ \A i \in 1..Len(conversations) :
                     i # target => conversations[i] = pre.conversations[i]
           ELSE /\ IndexOf(pre.conversations, activeConversationId) = 0
                /\ target = 1
                /\ Tail(conversations) = pre.conversations
        /\ SubSeq(conversations[target].messages, 1, Len(before)) = before
        /\ Len(added) = 2
        /\ added[1].role = "user"
        /\ C18_IsTrimOf(added[1].content, op.content)
        /\ added[2].role = "assistant"
        /\ added[2].content = <<>>
        /\ added[2].isStreaming
        /\ isLoading /\ isStreaming
        /\ Len(sessions) = Len(pre.sessions) + 1
        /\ sessions[Len(sessions)].pc = "import"

\* text with leading whitespace was sent into the active conversation,
\* which held messages already
C18_Witness ==
  /\ C18_SentText
  /\ C18_HadActive
  /\ Head(op.content) = " "
  /\ pre.conversations[
       IndexOf(pre.conversations, pre.activeConversationId)].messages # <<>>

\* text was sent while no conversation was active, and one was created
C18_WitnessCreated ==
  /\ C18_SentText
  /\ ~C18_HadActive
  /\ Len(conversations) = Len(pre.conversations) + 1

\* ------------------------------------------------------------------ C19 ---
\* C19: the history passed to the stream session holds at most 10 messages,
\* is a contiguous suffix of the conversation's messages in their stored
\* order, and contains the user message added by this sendMessage call,
\* however long the conversation is.
C19_Streaming(s) == sessions[s].pc = "stream" /\ Listed(sessions[s])

C19_MessagesOf(s) ==
  conversations[IndexOf(conversations, sessions[s].conv)].messages

C19_HistoryIsRecentSuffix ==
  \A s \in 1..Len(sessions) :
    C19_Streaming(s) =>
      LET history == sessions[s].history
          ids     == Ids(C19_MessagesOf(s))
      IN  /\ Len(history) <= 10
          /\ Len(history) <= Len(ids)
          /\ history = SubSeq(ids, Len(ids) - Len(history) + 1, Len(ids))
          /\ \E k \in 1..Len(history) : history[k] = sessions[s].user

\* a session streams on a conversation of more than 10 messages
C19_Witness ==
  \E s \in 1..Len(sessions) :
    /\ C19_Streaming(s)
    /\ Len(C19_MessagesOf(s)) > 10
    /\ Len(sessions[s].history) = 10

\* a session streams on a conversation of fewer than 10 messages
C19_WitnessShort ==
  \E s \in 1..Len(sessions) :
    /\ C19_Streaming(s)
    /\ Len(C19_MessagesOf(s)) < 10
    /\ Len(sessions[s].history) = Len(C19_MessagesOf(s))

\* ------------------------------------------------------------------ C20 ---
\* C20: once a terminal callback of a session has run, isLoading and
\* isStreaming are false and the assistant message of that sendMessage call
\* has isStreaming false; after onError its content is the diagnostic
\* template around the error's message, whatever had been received, and
\* after onComplete its content is what the content chunks accumulated to.
C20_Ended(s) ==
  /\ sessions[s].pc = "closed"
  /\ sessions[s].outcome \in {"complete", "error"}

C20_MessageSettled ==
  \A s \in 1..Len(sessions) :
    (C20_Ended(s) /\ Listed(sessions[s])) =>
      LET message == MessageOf(sessions[s])[1]
      IN  /\ ~message.isStreaming
          /\ sessions[s].outcome = "error" =>
               message.content = ErrorText(sessions[s].error)
          /\ sessions[s].outcome = "complete" =>
               message.content = sessions[s].clog

C20_FlagsReset ==
  \A s \in 1..Len(sessions) :
    (sessions[s].pc = "stream" /\ sessions'[s].pc = "closed") =>
      (~isLoading' /\ ~isStreaming')

C20_AfterTerminal == [](C20_MessageSettled) /\ [][C20_FlagsReset]_vars

\* onError ran on a session that had received answer text, and the message
\* now holds the diagnostic text only
C20_Witness ==
  \E s \in 1..Len(sessions) :
    /\ C20_Ended(s) /\ Listed(sessions[s])
    /\ sessions[s].outcome = "error"
    /\ sessions[s].clog # <<>>
    /\ MessageOf(sessions[s])[1].content = ErrorText(ReadMsg)
    /\ ~isLoading /\ ~isStreaming

\* ------------------------------------------------------------------ C21 ---
\* C21: when an exception is thrown in sendMessage outside the stream
\* session's error handling (the streaming client fails to load after the
\* placeholder was appended), then once sendMessage has settled isLoading
\* and isStreaming are false and the assistant message of that call is not
\* left with isStreaming true.
C21_SetupFailed(s) ==
  /\ sessions[s].pc = "closed"
  /\ sessions[s].outcome = "importFailed"

C21_AllSettled == \A s \in 1..Len(sessions) : sessions[s].pc = "closed"

C21_SetupFailureSettles ==
  \A s \in 1..Len(sessions) :
    C21_SetupFailed(s) =>
      /\ C21_AllSettled => (~isLoading /\ ~isStreaming)
      /\ Listed(sessions[s]) => ~MessageOf(sessions[s])[1].isStreaming

\* ------------------------------------------------------------------ C22 ---
\* C22: every failed sendMessage (network failure, HTTP error, timeout, or
\* an exception during setup) ends with the assistant message of that call
\* showing the diagnostic text; none leaves it empty or with partial text.
C22_Failed(s) ==
  /\ sessions[s].pc = "closed"
  /\ sessions[s].outcome \in {"error", "importFailed"}

C22_IsDiagnostic(content) ==
  \E message \in {TimeoutMsg, ReadMsg, NetworkMsg, <<>>} :
    content = ErrorText(message)

C22_FailureShowsDiagnostic ==
  \A s \in 1..Len(sessions) :
    (C22_Failed(s) /\ Listed(sessions[s])) =>
      C22_IsDiagnostic(MessageOf(sessions[s])[1].content)

\* ------------------------------------------------------------------ C23 ---
\* C23: the promise returned by sendMessage never rejects, whatever fails
\* during the call: the transport, the loading of the streaming client, or
\* a persistence write that throws at any step of the call.
C23_NeverRejects == op.name = "sendMessage" => ~op.rejected

\* ------------------------------------------------------------------ C24 ---
\* C24: every operation that changes a conversation or a message
\* (createConversation, deleteConversation, addMessage, updateMessage,
\* updateReasoningContent, and the updates onComplete and onError make to
\* the assistant message) saves afterwards: once it has returned, the
\* stored conversation array equals the one in memory.
C24_PersistedEqualsMemory ==
  /\ localStorage.conversations.present
  /\ ~parse(localStorage.conversations.text).thrown
  /\ parse(localStorage.conversations.text).value = conversations

\* ------------------------------------------------------------------ C25 ---
\* C25: updatedAt of a conversation is refreshed on every change of one of
\* its messages: appending a message, replacing content or
\* reasoningContent, clearing isStreaming at completion and overwriting the
\* content with the error text each set updatedAt to the current time.  So
\* a conversation is never older than its newest message, nor older than
\* the terminal callback of a session that wrote to one of its messages.
C25_NewestMessage(conv) ==
  \A k \in 1..Len(conv.messages) : conv.updatedAt >= conv.messages[k].timestamp

C25_UpdatedAtRefreshed ==
  /\ \A i \in 1..Len(conversations) : C25_NewestMessage(conversations[i])
  /\ \A s \in 1..Len(sessions) :
       (C20_Ended(s) /\ Listed(sessions[s])) =>
         conversations[IndexOf(conversations, sessions[s].conv)].updatedAt
           >= sessions[s].ended

\* ------------------------------------------------------------------ C26 ---
\* C26: after loadConversations, whatever is stored (nothing, a text that
\* does not parse, or a conversation array, with any saved active id), there
\* is at least one conversation and activeConversationId names a listed
\* one: the saved id if it names a conversation, otherwise the first
\* conversation, otherwise a newly created one; a text that does not parse
\* counts as no data and nothing is thrown.
C26_Loaded == op.name = "loadConversations"

\* the conversations the call found: the stored array, or those in memory
\* (none, in the store as built) when nothing usable is stored
C26_Data ==
  LET saved == pre.localStorage.conversations
  IN  IF saved.present /\ Len(saved.text) = 1 /\ saved.text[1].ok
      THEN saved.text[1].value
      ELSE pre.conversations

C26_SavedId ==
  LET saved == pre.localStorage.activeConversationId
  IN  IF saved.present /\ saved.text # <<>> THEN saved.text[1] ELSE Null

C26_LoadRestores ==
  C26_Loaded =>
    /\ ~op.rejected
    /\ Len(conversations) > 0
    /\ IndexOf(conversations, activeConversationId) # 0
    /\ IF C26_SavedId # Null /\ IndexOf(C26_Data, C26_SavedId) # 0
       THEN conversations = C26_Data /\ activeConversationId = C26_SavedId
       ELSE IF C26_Data # <<>>
       THEN conversations = C26_Data
            /\ activeConversationId = C26_Data[1].id
       ELSE /\ Len(conversations) = 1
            /\ conversations[1].messages = <<>>
            /\ activeConversationId = conversations[1].id

\* a text that does not parse was stored, together with a saved id
C26_Witness ==
  /\ C26_Loaded
  /\ pre.localStorage.conversations = Item(Unparsable)
  /\ pre.localStorage.activeConversationId = Item(<< -1 >>)
  /\ Len(conversations) = 1

\* two conversations were stored and the saved id names neither
C26_WitnessFirst ==
  /\ C26_Loaded
  /\ Len(C26_Data) = 2
  /\ C26_SavedId = UnknownId
  /\ activeConversationId = C26_Data[1].id

\* two conversations were stored and the saved id names the second
C26_WitnessSaved ==
  /\ C26_Loaded
  /\ Len(C26_Data) = 2
  /\ C26_SavedId = C26_Data[2].id
  /\ activeConversationId = C26_SavedId

\* ------------------------------------------------------------------ C27 ---
\* C27: in every state reached through createConversation,
\* deleteConversation, switchConversation and sendMessage with its stream
\* callbacks, only assistant messages have isStreaming true or a
\* reasoningContent; a user message never has either.
C27_OnlyAssistantStreams ==
  \A i \in 1..Len(conversations) :
    \A k \in 1..Len(conversations[i].messages) :
      LET message == conversations[i].messages[k]
      IN  message.role # "assistant" =>
            (~message.isStreaming /\ message.reasoningContent = Undefined)

\* a conversation holds a user message next to an assistant message that is
\* streaming and has received reasoning text
C27_Witness ==
  \E i \in 1..Len(conversations) :
    \E k \in 1..Len(conversations[i].messages) - 1 :
      /\ conversations[i].messages[k].role = "user"
      /\ conversations[i].messages[k + 1].role = "assistant"
      /\ conversations[i].messages[k + 1].isStreaming
      /\ conversations[i].messages[k + 1].reasoningContent # Undefined

\* ------------------------------------------------------------------ C28 ---
\* C28: within a conversation the message sequence changes only by
\* appending at the end: no step removes, reorders or replaces a message,
\* and the id, role and timestamp of a message never change.
C28_Extends(old, new) ==
  /\ Len(new) >= Len(old)
  /\ \A k \in 1..Len(old) :
       /\ new[k].id = old[k].id
       /\ new[k].role = old[k].role
       /\ new[k].timestamp = old[k].timestamp

C28_Step ==
  \A i \in 1..Len(conversations) :
    LET j == IndexOf(conversations', conversations[i].id)
    IN  j # 0 => C28_Extends(conversations[i].messages,
                             conversations'[j].messages)

C28_AppendOnly == [][C28_Step]_vars

\* a conversation holds the messages of two exchanges made at different
\* times, the first answer having received text after it was added
C28_Witness ==
  \E i \in 1..Len(conversations) :
    LET messages == conversations[i].messages
    IN  /\ Len(messages) = 4
        /\ messages[2].content # <<>>
        /\ messages[3].timestamp > messages[2].timestamp
        /\ conversations[i].updatedAt > messages[4].timestamp

\* ------------------------------------------------------------------ C29 ---
\* C29: isStreaming is true while an assistant message is receiving chunks:
\* in every reachable state, states with two overlapping sendMessage calls
\* included, if some stream session has not yet fired its terminal callback
\* then isStreaming and isLoading are true.
C29_SessionOpen == \E s \in 1..Len(sessions) : sessions[s].pc = "stream"

C29_FlagsWhileStreaming == C29_SessionOpen => (isStreaming /\ isLoading)

\* ------------------------------------------------------------------ C30 ---
\* C30: frames that are no deltas are inert: empty lines, comment lines,
\* [DONE] frames, frames with a usage object and frames with an empty
\* choices list cause no callback and leave the answering latch alone; a
\* usage frame is never delivered as content; and [DONE] does not end the
\* session: onComplete fires only when the reader reports the end of input.
C30_Inert(l) ==
  l \in { <<>>, <<COLON, BAD>>, <<DATA, SP, DONE>>,
          <<DATA, SP, "jUsageC">>, <<DATA, SP, "jEmpty">> }

\* the lines read so far, the inert ones left out
C30_Deltas == SelectSeq(DeliveredLines, LAMBDA l : ~C30_Inert(l))

C30_InertFrames ==
  /\ ChunkCalls = C4_Expected(C30_Deltas, FALSE)
  /\ isAnswering =
       (\E k \in 1..Len(C30_Deltas) : C4_Carried(C30_Deltas[k]).c # <<>>)
  /\ \A i \in 1..Len(calls) :
       calls[i].cb = "onChunk" => calls[i].arg # "count"
  /\ Count("onComplete") > 0 => (pos = Len(body) /\ pc = "returned")

\* [DONE] and a usage frame went by, an answer frame after them was still
\* delivered, and the call completed at the end of input
C30_Witness ==
  /\ body = Line(<<DATA, SP, DONE>>) \o Line(<<DATA, SP, "jUsageC">>)
              \o Line(<<DATA, SP, "jAnswer">>)
  /\ calls = << Call("onChunk", "answer"), Call("onComplete", <<>>) >>

\* the whole body was read, all of it inert, and nothing has been called
C30_WitnessQuiet ==
  /\ body = Line(<<>>) \o Line(<<COLON, BAD>>) \o Line(<<DATA, SP, "jEmpty">>)
  /\ pos = Len(body)
  /\ pc = "read"
  /\ calls = <<>>
  /\ ~isAnswering

\* ------------------------------------------------------------------ C31 ---
\* what the frames carried: the answer text of all of them, and the
\* reasoning text of those that came before any earlier frame had answer text
RECURSIVE C31_Content(_)
C31_Content(frames) ==
  IF frames = <<>> THEN <<>>
  ELSE TextOf(Head(frames).content) \o C31_Content(Tail(frames))

RECURSIVE C31_Reasoning(_)
C31_Reasoning(frames) ==
  IF frames = <<>> THEN <<>>
  ELSE TextOf(Head(frames).reasoning)
         \o (IF TextOf(Head(frames).content) # <<>> THEN <<>>
             ELSE C31_Reasoning(Tail(frames)))

\* C31: a persistence write that throws while a stream is in flight is not
\* fatal to message delivery: when the session has ended with onComplete,
\* the content and the reasoningContent of its assistant message are the
\* concatenation of the chunks the received frames carried.
C31_DeliveredDespiteStorage ==
  \A s \in 1..Len(sessions) :
    (sessions[s].outcome = "complete" /\ MessageOf(sessions[s]) # <<>>) =>
      /\ MessageOf(sessions[s])[1].content = C31_Content(sessions[s].frames)
      /\ TextOf(MessageOf(sessions[s])[1].reasoningContent)
           = C31_Reasoning(sessions[s].frames)

\* ------------------------------------------------------------------ C32 ---
\* the requests in flight that enabled loading
C32_InFlight ==
  Cardinality({ i \in 1..Len(requests) :
                  requests[i].pc = "sent"
                  /\ requests[i].showLoading # Some(FALSE) })

\* C32: loadingCount always equals the number of in-flight requests that
\* enabled loading, it is never negative, and the overlay exists exactly
\* while that number is positive.
C32_LoadingCounted ==
  /\ loadingCount = C32_InFlight
  /\ loadingCount >= 0
  /\ loadingInstance <=> C32_InFlight > 0

\* ------------------------------------------------------------------ C33 ---
\* C33: the rendered items are exactly the contiguous indices
\* startIndex..endIndex, all within 0..n-1, and paddingTop plus the height
\* of the rendered items plus paddingBottom is n * itemHeight, with both
\* paddings non-negative.
C33_HeightConserved ==
  /\ { visibleItems[k].index : k \in 1..Len(visibleItems) } = startIndex..endIndex
  /\ \A k \in 1..Len(visibleItems) :
       /\ visibleItems[k].index \in 0..(Len(items) - 1)
       /\ k > 1 => visibleItems[k].index = visibleItems[k - 1].index + 1
  /\ contentStyle.paddingTop >= 0
  /\ contentStyle.paddingBottom >= 0
  /\ contentStyle.paddingTop + Len(visibleItems) * itemHeight
       + contentStyle.paddingBottom = Len(items) * itemHeight

\* ------------------------------------------------------------------ C34 ---
\* the step is a chunk callback of session s
C34_Chunk(s) ==
  /\ s \in 1..Len(sessions)
  /\ Len(sessions') = Len(sessions)
  /\ sessions'[s].n = sessions[s].n + 1

\* the conversations differ at most in the message msg of the conversation
\* conv, and there at most in content and reasoningContent, and in the
\* updatedAt of that conversation
C34_OnlyIn(conv, msg) ==
  /\ Len(conversations') = Len(conversations)
  /\ \A i \in 1..Len(conversations) :
       IF conversations[i].id # conv
       THEN conversations'[i] = conversations[i]
       ELSE /\ [conversations'[i] EXCEPT !.messages = <<>>, !.updatedAt = 0]
                 = [conversations[i] EXCEPT !.messages = <<>>, !.updatedAt = 0]
            /\ Len(conversations'[i].messages) = Len(conversations[i].messages)
            /\ \A k \in 1..Len(conversations[i].messages) :
                 IF conversations[i].messages[k].id # msg
                 THEN conversations'[i].messages[k] = conversations[i].messages[k]
                 ELSE [conversations'[i].messages[k]
                         EXCEPT !.content = <<>>, !.reasoningContent = Undefined]
                        = [conversations[i].messages[k]
                             EXCEPT !.content = <<>>, !.reasoningContent = Undefined]

C34_Step ==
  \A s \in 1..Len(sessions) :
    C34_Chunk(s) =>
      /\ C34_OnlyIn(sessions[s].conv, sessions[s].msg)
      /\ activeConversationId' = activeConversationId

\* C34: every chunk of a session is applied only to the assistant message
\* the same sendMessage call created: whatever conversation is active and
\* whatever other calls are in flight, a chunk callback changes no other
\* message and no other conversation.
C34_OwnMessageOnly == [][C34_Step]_vars

\* two calls stream into two conversations; the first, whose conversation
\* is no longer the active one, has received an answer chunk and the
\* second a reasoning chunk, and each message holds its own chunk only
C34_Witness ==
  /\ Len(sessions) = 2
  /\ sessions[1].conv # sessions[2].conv
  /\ activeConversationId # sessions[1].conv
  /\ sessions[1].clog = <<"a">> /\ sessions[1].rlog = <<>>
  /\ sessions[2].rlog = <<"a">> /\ sessions[2].clog = <<>>
  /\ MessageOf(sessions[1]) # <<>> /\ MessageOf(sessions[2]) # <<>>
  /\ MessageOf(sessions[1])[1].content = <<"a">>
  /\ MessageOf(sessions[1])[1].reasoningContent = Undefined
  /\ MessageOf(sessions[2])[1].content = <<>>
  /\ MessageOf(sessions[2])[1].reasoningContent = Some(<<"a">>)

\* two calls stream into the same conversation, and the chunk of the
\* first has gone to the first placeholder, not to the newest message
C34_WitnessSame ==
  /\ Len(sessions) = 2
  /\ sessions[1].conv = sessions[2].conv
  /\ sessions[1].pc = "stream" /\ sessions[2].pc = "stream"
  /\ sessions[1].clog = <<"a">> /\ sessions[2].n = 0
  /\ MessageOf(sessions[1]) # <<>> /\ MessageOf(sessions[2]) # <<>>
  /\ MessageOf(sessions[1])[1].content = <<"a">>
  /\ MessageOf(sessions[2])[1].content = <<>>

\* ------------------------------------------------------------------ C35 ---
\* the conversations a storage holds
C35_PersistedIn(storage) ==
  IF storage.conversations.present /\ ~parse(storage.conversations.text).thrown
  THEN parse(storage.conversations.text).value
  ELSE <<>>

\* the step is a chunk callback or the terminal callback of session s
C35_Callback(s) ==
  /\ Len(sessions') = Len(sessions)
  /\ sessions[s].pc = "stream"
  /\ sessions'[s] # sessions[s]

C35_Step ==
  \A s \in 1..Len(sessions) :
    IndexOf(conversations, sessions[s].conv) = 0 =>
      /\ IndexOf(conversations', sessions[s].conv) = 0
      /\ IndexOf(C35_PersistedIn(localStorage), sessions[s].conv) = 0 =>
           IndexOf(C35_PersistedIn(localStorage'), sessions[s].conv) = 0
      /\ C35_Callback(s) =>
           /\ conversations' = conversations
           /\ localStorage' = localStorage
           /\ sessions'[s].pc = "closed" => (~isLoading' /\ ~isStreaming')

\* the conversation of a session is absent from the stored data from the
\* step on that deleted it
C35_Deleted ==
  \A s \in 1..Len(sessions) :
    (IndexOf(conversations, sessions[s].conv) # 0
     /\ IndexOf(conversations', sessions[s].conv) = 0) =>
       IndexOf(C35_PersistedIn(localStorage'), sessions[s].conv) = 0

\* C35: once the conversation of an in-flight stream is deleted, the
\* chunks and the terminal callback that arrive afterwards change no
\* remaining conversation and nothing stored, the deleted conversation
\* comes back neither to the list nor to the stored data, and the
\* terminal callback still resets isLoading and isStreaming.
C35_DeletedStaysGone == [][C35_Step /\ C35_Deleted]_vars

\* a chunk has arrived for a conversation that was deleted before the
\* stream began (the history the call sliced was empty)
C35_Witness ==
  \E s \in 1..Len(sessions) :
    /\ sessions[s].pc = "stream"
    /\ sessions[s].history = <<>>
    /\ sessions[s].clog = <<"a">>
    /\ IndexOf(conversations, sessions[s].conv) = 0
    /\ IndexOf(C35_PersistedIn(localStorage), sessions[s].conv) = 0

\* the stream of a deleted conversation has completed after a chunk
C35_WitnessEnded ==
  \E s \in 1..Len(sessions) :
    /\ sessions[s].outcome = "complete"
    /\ sessions[s].rlog = <<"a">>
    /\ IndexOf(conversations, sessions[s].conv) = 0
    /\ ~isLoading /\ ~isStreaming
    /\ \A i \in 1..Len(conversations) : conversations[i].messages = <<>>

\* ------------------------------------------------------------------ C36 ---
\* the sessions in flight, and the messages marked as streaming
C36_InFlight ==
  { s \in 1..Len(sessions) : sessions[s].pc \in {"import", "stream"} }

C36_Streaming ==
  { <<i, k>> \in (1..Len(conversations)) \X (1..MaxIds + MaxStored + 1) :
      /\ k <= Len(conversations[i].messages)
      /\ conversations[i].messages[k].isStreaming }

\* C36: sends started through handleSend are mutually exclusive: at most
\* one stream session is in flight at any time, and two assistant
\* placeholders are never streaming at once.
C36_OneAtATime ==
  /\ Cardinality(C36_InFlight) <= 1
  /\ Cardinality(C36_Streaming) <= 1

\* ------------------------------------------------------------------ C37 ---
\* the message with this id in the conversations, <<>> if there is none
C37_Message(convs, conv, id) ==
  MessageIn(convs, [conv |-> conv, msg |-> id])

\* session s passes its history to sendStreamMessage in this step
C37_Sliced(s) ==
  /\ Len(sessions') = Len(sessions)
  /\ sessions[s].pc = "import"
  /\ sessions'[s].pc = "stream"

C37_Step ==
  \A s \in 1..Len(sessions) :
    C37_Sliced(s) =>
      LET history == sessions'[s].history
          n       == Len(history)
          last    == C37_Message(conversations', sessions[s].conv, history[n])
          before  == C37_Message(conversations', sessions[s].conv, history[n - 1])
      IN  /\ n >= 2
          /\ n <= HistoryLen
          /\ history[n] = sessions[s].msg
          /\ last # <<>>
          /\ last[1].role = "assistant" /\ last[1].content = <<>>
          /\ history[n - 1] = sessions[s].user
          /\ before # <<>>
          /\ before[1].role = "user"
          /\ Cardinality({ k \in 1..n : history[k] \notin
                             {sessions[s].user, sessions[s].msg} })
               <= HistoryLen - 2

\* C37: the history handed to the stream session is sliced after the
\* assistant placeholder was appended: its last element is the empty
\* assistant placeholder of the call, the user message just added is
\* second to last, and at most 8 older messages go with them.
C37_PlaceholderLast == [][C37_Step]_vars

\* a call streams on a conversation that held 9 or more messages before
\* it: the history is the placeholder, the user message and 8 older ones
C37_Witness ==
  \E s \in 1..Len(sessions) :
    /\ C19_Streaming(s)
    /\ Len(C19_MessagesOf(s)) > HistoryLen
    /\ Len(sessions[s].history) = HistoryLen
    /\ sessions[s].history[HistoryLen] = sessions[s].msg
    /\ sessions[s].history[HistoryLen - 1] = sessions[s].user
    /\ Len(SelectSeq(sessions[s].history, LAMBDA id : id < 0)) = HistoryLen - 2

\* ------------------------------------------------------------------ C38 ---
\* every stream session has terminated
C38_AllEnded ==
  \A s \in 1..Len(sessions) : sessions[s].pc = "closed"

\* C38: once every stream session has terminated, the stored conversation
\* array holds no message with isStreaming true, so that loadConversations
\* after a reload restores no message marked as streaming.
C38_NoStreamingStored ==
  C38_AllEnded =>
    LET stored == loadConversations(
                    [NewStore EXCEPT !.localStorage = localStorage]).conversations
    IN  \A i \in 1..Len(stored) :
          \A k \in 1..Len(stored[i].messages) :
            ~stored[i].messages[k].isStreaming

\* ------------------------------------------------------------------ C39 ---
\* C39: the two session flags are redundant: in every reachable state of
\* the store isLoading equals isStreaming.
C39_FlagsEqual == isLoading = isStreaming

\* both flags are up while a call awaits the import or streams
C39_Witness ==
  /\ isLoading /\ isStreaming
  /\ \E s \in 1..Len(sessions) : sessions[s].pc = "stream" /\ sessions[s].n > 0

\* both flags are down again after the catch of a failed import
C39_WitnessCaught ==
  /\ ~isLoading /\ ~isStreaming
  /\ \E s \in 1..Len(sessions) : sessions[s].outcome = "importFailed"

\* both flags are down again after onError
C39_WitnessError ==
  /\ ~isLoading /\ ~isStreaming
  /\ \E s \in 1..Len(sessions) : sessions[s].outcome = "error"

=============================================================================
